---- MODULE Spec2Model ----
(***************************************************************************)
(* Model of the grocery-offer aggregation core of foodfolder:              *)
(*   src/lib/eta.ts                  extractor, normalizer, orchestrator   *)
(*   src/app/api/eta/search/route.ts the /search endpoint and its cache    *)
(*   src/app/api/eta/guide/route.ts  the /guide endpoint (lines 1-324)     *)
(*                                                                         *)
(* Strings are sequences of one-character strings, so that trim, replace,  *)
(* includes and the regular expressions are computed, not assumed.  The    *)
(* Danish letters are written "ae", "oe", "aa" (one element each).  URLs   *)
(* are sequences of lexical pieces ("?", "publication=", "&amp;", ...).    *)
(* A nullable value is <<>> (null) or <<v>>.                               *)
(***************************************************************************)
EXTENDS Integers, Sequences, FiniteSets, TLC

VARIABLES
  nPayload, nUrl, nOffer,
  xHtml, xOut,
  ePc, eOpts, eUrls, eI, eOut, eLog,
  sNow, sCache, sReqs, sFetches,
  pRaw, pOpts,
  mName, mQuery, mMatch, mTerms,
  gPc, gQueries, gResults, gFetched, gResp

nvars == <<nPayload, nUrl, nOffer>>
xvars == <<xHtml, xOut>>
evars == <<ePc, eOpts, eUrls, eI, eOut, eLog>>
svars == <<sNow, sCache, sReqs, sFetches>>
pvars == <<pRaw, pOpts>>
mvars == <<mName, mQuery, mMatch, mTerms>>
gvars == <<gPc, gQueries, gResults, gFetched, gResp>>
vars == <<nvars, xvars, evars, svars, pvars, mvars, gvars>>

\* what the actions of one part of the program leave alone
NotNormalizer == <<xvars, evars, svars, pvars, gvars, mvars>>
NotExtractor == <<nvars, evars, svars, pvars, gvars, mvars>>
NotEta == <<nvars, xvars, svars, pvars, gvars, mvars>>
NotSearch == <<nvars, xvars, evars, pvars, gvars, mvars>>
NotParams == <<nvars, xvars, evars, svars, gvars, mvars>>
NotGuide == <<nvars, xvars, evars, svars, pvars, mvars>>
NotMatcher == <<nvars, xvars, evars, svars, pvars, gvars>>

\* ------------------------------------------------------------------ bounds
MaxPriceLen == 3
MaxNameLen == 4
MaxFragments == 2
MaxReqs == 3
MaxFetched == 4
MaxClock == 2
MaxParamLen == 4
MaxNameWords == 2

\* ---------------------------------------------------------- generic helpers
Null == <<>>
Some(v) == <<v>>
IsNull(x) == x = <<>>

\* the parts of the state a specification does not use stay as they start
NIdle == nPayload = Null /\ nUrl = Null /\ nOffer = Null
XIdle == xHtml = Null /\ xOut = Null
EIdle ==
  /\ ePc = "idle" /\ eOpts = Null /\ eUrls = <<>> /\ eI = 0 /\ eOut = <<>> /\ eLog = <<>>
SIdle == sNow = 0 /\ sCache = <<>> /\ sReqs = <<>> /\ sFetches = 0
PIdle == pRaw = Null /\ pOpts = Null
MIdle == mName = Null /\ mQuery = <<>> /\ mMatch = Null /\ mTerms = Null
GIdle ==
  /\ gPc = "idle" /\ gQueries = <<>> /\ gResults = <<>> /\ gFetched = 0 /\ gResp = Null

RECURSIVE SeqsUpTo(_, _)
SeqsUpTo(S, n) ==
  IF n = 0 THEN {<<>>}
  ELSE LET prev == SeqsUpTo(S, n - 1)
       IN prev \cup {Append(s, c) : s \in {p \in prev : Len(p) = n - 1}, c \in S}

IsSpace(c) == c = " "
IsDigit(c) == c \in {"0", "1", "2", "3", "4", "5", "6", "7", "8", "9"}
DigitVal(c) ==
  CASE c = "0" -> 0 [] c = "1" -> 1 [] c = "2" -> 2 [] c = "3" -> 3
    [] c = "4" -> 4 [] c = "5" -> 5 [] c = "6" -> 6 [] c = "7" -> 7
    [] c = "8" -> 8 [] c = "9" -> 9

\* String.prototype.startsWith / includes on sequences
StartsWith(s, p) == Len(p) <= Len(s) /\ SubSeq(s, 1, Len(p)) = p
Includes(s, p) ==
  \E i \in 1..(Len(s) - Len(p) + 1) : SubSeq(s, i, i + Len(p) - 1) = p

\* String.prototype.trim
RECURSIVE TrimLeft(_)
TrimLeft(s) == IF s # <<>> /\ IsSpace(Head(s)) THEN TrimLeft(Tail(s)) ELSE s
RECURSIVE TrimRight(_)
TrimRight(s) ==
  IF s # <<>> /\ IsSpace(s[Len(s)]) THEN TrimRight(SubSeq(s, 1, Len(s) - 1)) ELSE s
Trim(s) == TrimRight(TrimLeft(s))

\* s.replace(a, b) with a string pattern: only the first occurrence
RECURSIVE ReplaceFirst(_, _, _)
ReplaceFirst(s, a, b) ==
  IF s = <<>> THEN <<>>
  ELSE IF Head(s) = a THEN <<b>> \o Tail(s)
  ELSE <<Head(s)>> \o ReplaceFirst(Tail(s), a, b)

\* s.replace(/a/g, b): every occurrence
RECURSIVE ReplaceAll(_, _, _)
ReplaceAll(s, a, b) ==
  IF s = <<>> THEN <<>>
  ELSE <<(IF Head(s) = a THEN b ELSE Head(s))>> \o ReplaceAll(Tail(s), a, b)

RECURSIVE Pow10(_)
Pow10(n) == IF n = 0 THEN 1 ELSE 10 * Pow10(n - 1)

RECURSIVE DigitsValue(_)
DigitsValue(s) ==
  IF s = <<>> THEN 0 ELSE 10 * DigitsValue(SubSeq(s, 1, Len(s) - 1)) + DigitVal(s[Len(s)])

\* ------------------------------------------------------ eta.ts: toFloat
\* Numbers are fixed-point integers: the value times 10^FracDigits.
FracDigits == 4

\* A decimal literal of Number(): digits with at most one ".", one digit at least
IsDecimalLiteral(s) ==
  /\ \A i \in 1..Len(s) : IsDigit(s[i]) \/ s[i] = "."
  /\ Cardinality({i \in 1..Len(s) : s[i] = "."}) <= 1
  /\ \E i \in 1..Len(s) : IsDigit(s[i])

DecimalValue(s) ==
  LET dots == {i \in 1..Len(s) : s[i] = "."}
      d == IF dots = {} THEN Len(s) + 1 ELSE CHOOSE i \in dots : TRUE
      ip == SubSeq(s, 1, d - 1)
      fp == SubSeq(s, d + 1, Len(s))
  IN DigitsValue(ip) * Pow10(FracDigits)
       + (DigitsValue(fp) * Pow10(FracDigits)) \div Pow10(Len(fp))

\* Number(s) for a string: the empty (or blank) string is 0, a decimal
\* literal is its value, anything else is NaN.
JsNumber(s) ==
  LET t == Trim(s)
  IN IF t = <<>> THEN [finite |-> TRUE, v |-> 0]
     ELSE IF IsDecimalLiteral(t) THEN [finite |-> TRUE, v |-> DecimalValue(t)]
     ELSE [finite |-> FALSE, v |-> 0]

\* A JSON field value: t is the JavaScript type, v the number, s the string.
FieldVal(t, v, s) == [t |-> t, v |-> v, s |-> s]
Undef == FieldVal("undef", 0, <<>>)
JNull == FieldVal("null", 0, <<>>)
JNum(v) == FieldVal("num", v, <<>>)
JStr(s) == FieldVal("str", 0, s)
JBool == FieldVal("bool", 0, <<>>)
JObj == FieldVal("obj", 0, <<>>)
\* a number that is not finite (JSON.parse("1e999") is Infinity)
JInf == FieldVal("inf", 0, <<>>)

toFloat(x) ==
  IF x.t \in {"undef", "null"} THEN Null
  ELSE IF x.t = "num" THEN Some(x.v)
  ELSE IF x.t = "inf" THEN Null
  ELSE IF x.t = "str"
    THEN LET s == ReplaceFirst(Trim(x.s), ",", ".")
             n == JsNumber(s)
         IN IF n.finite THEN Some(n.v) ELSE Null
  ELSE Null

\* a ?? b
Coalesce(a, b) == IF IsNull(a) THEN b ELSE a

\* ------------------------------------------ eta.ts: parseDiscountPercent
\* /(\d{1,3})\s*%/ at position i with k digits
PercentAfter(s, j) ==
  \E m \in j..Len(s) : s[m] = "%" /\ \A n \in j..(m - 1) : IsSpace(s[n])
MatchAt(s, i, k) ==
  /\ i + k - 1 <= Len(s)
  /\ \A j \in i..(i + k - 1) : IsDigit(s[j])
  /\ PercentAfter(s, i + k)

\* first match: leftmost start, then the longest digit run (greedy)
FirstPercentMatch(s) ==
  LET starts == {i \in 1..Len(s) : \E k \in 1..3 : MatchAt(s, i, k)}
  IN IF starts = {} THEN Null
     ELSE LET i == CHOOSE a \in starts : \A b \in starts : a <= b
              k == CHOOSE a \in {c \in 1..3 : MatchAt(s, i, c)} :
                     \A b \in {c \in 1..3 : MatchAt(s, i, c)} : a >= b
          IN Some(SubSeq(s, i, i + k - 1))

\* parseDiscountPercent without the range test of line 50
parseDiscountPercentNoRange(name) ==
  IF IsNull(name) \/ name[1] = <<>> THEN Null
  ELSE LET m == FirstPercentMatch(name[1])
       IN IF IsNull(m) THEN Null ELSE Some(DigitsValue(m[1]))

parseDiscountPercent(name) ==
  IF IsNull(name) \/ name[1] = <<>> THEN Null
  ELSE LET m == FirstPercentMatch(name[1])
       IN IF IsNull(m) THEN Null
          ELSE LET v == DigitsValue(m[1])
               IN IF v > 0 /\ v <= 100 THEN Some(v) ELSE Null

\* ------------------------------------------------------------ eta.ts: URLs
\* "https://etilbudsavis.dk" and "https://etilbudsavis.dk/" in pieces
Host == "etilbudsavis.dk"
Origin == <<"https:", "/", "/", Host>>
OriginSlash == Origin \o <<"/">>
UrlDelims == {"/", "?", "#", "&", "&amp;", " "}

\* the query of a URL: after the first "?", up to a "#"; none when a "#"
\* comes first
RECURSIVE UpTo(_, _)
UpTo(s, c) == IF s = <<>> \/ Head(s) = c THEN <<>> ELSE <<Head(s)>> \o UpTo(Tail(s), c)
RECURSIVE After(_, _)
After(s, c) == IF s = <<>> THEN <<>> ELSE IF Head(s) = c THEN Tail(s) ELSE After(Tail(s), c)
UrlQuery(url) == After(UpTo(url, "#"), "?")

\* u.pathname.replace(/^\/+/, "").split("/")[0] || null, for a URL on Origin
StoreSlug(url) ==
  LET path == UpTo(UpTo(url, "#"), "?")
  IN IF StartsWith(path, OriginSlash) /\ Len(path) >= 6 /\ path[6] \notin UrlDelims
     THEN Some(<<path[6]>>) ELSE Null

\* ----------------------------------- eta.ts: extractOfferUrlsFromSearchHtml
\* pushUrl: the list is returned unchanged when the candidate is rejected
pushUrl(out, u) ==
  IF u = <<>> THEN out
  ELSE LET decoded == ReplaceAll(Trim(u), "&amp;", "&")
           url == IF StartsWith(decoded, <<"/">>) THEN Origin \o decoded ELSE decoded
       IN IF ~StartsWith(url, OriginSlash) THEN out
          ELSE IF ~Includes(url, <<"?", "publication=">>) THEN out
          ELSE IF ~Includes(url, <<"&", "offer=">>) /\ ~Includes(url, <<"offer=">>) THEN out
          ELSE IF \E i \in 1..Len(out) : out[i] = url THEN out
          ELSE Append(out, url)

NoSpace(t, a, b) == \A j \in a..b : ~IsSpace(t[j])

\* tail of /...publication=[^"'<>]+offer=[^"'<>]+/ with "publication=" at a
PubThenOffer(t, a) ==
  /\ a <= Len(t) /\ t[a] = "publication="
  /\ \E b \in (a + 2)..(Len(t) - 1) : t[b] = "offer="

\* /(https?:\/\/etilbudsavis\.dk\/[^\s"'<>]+publication=[^"'<>]+offer=[^"'<>]+)/
\* starting at piece i of a fragment t that holds no quote or angle bracket
MatchAbsAt(t, i) ==
  /\ i + 4 <= Len(t)
  /\ t[i] \in {"https:", "http:"}
  /\ SubSeq(t, i + 1, i + 4) = <<"/", "/", Host, "/">>
  /\ \E a \in (i + 6)..Len(t) : NoSpace(t, i + 5, a - 1) /\ PubThenOffer(t, a)

\* /(\/[^\s"'<>]+\?[^"'<>]*publication=[^"'<>]+offer=[^"'<>]+)/ at piece i
MatchRelAt(t, i) ==
  /\ i <= Len(t) /\ t[i] = "/"
  /\ \E q \in (i + 2)..Len(t) :
       /\ t[q] = "?" /\ NoSpace(t, i + 1, q - 1)
       /\ \E a \in (q + 1)..Len(t) : PubThenOffer(t, a)

\* the match of a fragment: from the leftmost start to the fragment's end
\* (the last [^"'<>]+ is greedy), or nothing
AbsMatch(t) ==
  LET starts == {i \in 1..Len(t) : MatchAbsAt(t, i)}
  IN IF starts = {} THEN <<>>
     ELSE SubSeq(t, CHOOSE i \in starts : \A j \in starts : i <= j, Len(t))
RelMatch(t) ==
  LET starts == {i \in 1..Len(t) : MatchRelAt(t, i)}
  IN IF starts = {} THEN <<>>
     ELSE SubSeq(t, CHOOSE i \in starts : \A j \in starts : i <= j, Len(t))

\* The page is a sequence of fragments free of quotes and angle brackets:
\* kind "ld" is a URL string of a JSON-LD itemListElement, "href" the value
\* of an href attribute, "raw" any other text.
RECURSIVE PushLd(_, _)
PushLd(out, html) ==
  IF html = <<>> THEN out
  ELSE PushLd(IF Head(html).kind = "ld" THEN pushUrl(out, Head(html).text) ELSE out,
              Tail(html))
RECURSIVE PushHref(_, _)
PushHref(out, html) ==
  IF html = <<>> THEN out
  ELSE LET h == Head(html)
           take == /\ h.kind = "href"
                   /\ Includes(h.text, <<"publication=">>)
                   /\ Includes(h.text, <<"offer=">>)
       IN PushHref(IF take THEN pushUrl(out, h.text) ELSE out, Tail(html))
RECURSIVE PushAbs(_, _)
PushAbs(out, html) ==
  IF html = <<>> THEN out ELSE PushAbs(pushUrl(out, AbsMatch(Head(html).text)), Tail(html))
RECURSIVE PushRel(_, _)
PushRel(out, html) ==
  IF html = <<>> THEN out ELSE PushRel(pushUrl(out, RelMatch(Head(html).text)), Tail(html))

extractOfferUrlsFromSearchHtml(html) ==
  PushRel(PushAbs(PushHref(PushLd(<<>>, html), html), html), html)

\* pick(payload, ["price", "value"]): only an object has a "value" to read
PickPriceValue(payload) ==
  IF payload.price.t = "obj" THEN payload.priceValue ELSE JNull

\* -------------------------------------------- eta.ts: normalizeOfferPayload
\* The fields copied through unchanged (publication, offerId, publicId,
\* currency, validity, image, unit price) are left out.
normalizeOfferPayload(payload, sourceUrl) ==
  LET name == Coalesce(payload.name, payload.title)
      price == Coalesce(toFloat(payload.price),
                 Coalesce(toFloat(payload.pricingPrice),
                          toFloat(PickPriceValue(payload))))
      storeName == Coalesce(payload.sellerName, StoreSlug(sourceUrl))
      kind == IF ~IsNull(price) THEN "offer" ELSE "promotion"
      discountPercent == IF kind = "promotion" THEN parseDiscountPercent(name) ELSE Null
  IN [sourceUrl |-> sourceUrl, store |-> storeName, name |-> name, price |-> price,
      kind |-> kind, discountPercent |-> discountPercent]

\* ------------------------------------------------ the normalizer's inputs
PriceChars == {" ", "1", ",", ".", "a"}
NameChars == {"1", "0", "5", " ", "%", "a"}
PriceStrings == SeqsUpTo(PriceChars, MaxPriceLen)
NameStrings == SeqsUpTo(NameChars, MaxNameLen)

PriceFields ==
  {Undef, JNull, JNum(0), JNum(125000), JInf, JBool, JObj} \cup {JStr(s) : s \in PriceStrings}
FewPriceFields == {Undef, JNum(125000), JStr(<<"1", ",", "5">>), JStr(<<"a">>)}
FewNames == {Null, Some(<<"1", "0", "%">>), Some(<<"a">>)}

MkPayload(name, title, price, pricingPrice, priceValue, sellerName) ==
  [name |-> name, title |-> title, price |-> price, pricingPrice |-> pricingPrice,
   priceValue |-> priceValue, sellerName |-> sellerName]

\* every shape of the price paths with a few names, and every name with a
\* few prices
PayloadsByPrice ==
  {MkPayload(n, Null, p, pp, pv, Null) :
     n \in FewNames, p \in PriceFields, pp \in FewPriceFields, pv \in FewPriceFields}
PayloadsByName ==
  {MkPayload(n, t, p, Undef, Undef, s) :
     n \in {Null} \cup {Some(x) : x \in NameStrings},
     t \in {Null, Some(<<"5", "%">>)},
     p \in {Undef, JNum(125000), JStr(<<" ">>)},
     s \in {Null, Some(<<"N", "e", "t", "t", "o">>)}}
Payloads == PayloadsByPrice \cup PayloadsByName

OfferUrlSample ==
  {OriginSlash \o <<"netto", "?", "publication=", "1", "&", "offer=", "2">>,
   OriginSlash \o <<"?", "publication=", "1", "&", "offer=", "2">>}

NInit ==
  /\ nPayload \in Payloads
  /\ nUrl \in OfferUrlSample
  /\ nOffer = Null

\* one call normalizeOfferPayload(payload, sourceUrl)
Normalize ==
  /\ nPayload # Null /\ nOffer = Null
  /\ nOffer' = Some(normalizeOfferPayload(nPayload, nUrl))
  /\ UNCHANGED <<nPayload, nUrl, NotNormalizer>>

\* ------------------------------------------------- the extractor's inputs
UrlPrefixes ==
  {OriginSlash, <<"/">>, <<" ", "/">>, <<"http:", "/", "/", Host, "/">>,
   <<"https:", "/", "/", "evil.dk", "/">>}
UrlTails ==
  {<<s1, p1, "1", s2>> \o mid \o <<p2, "2">> :
     s1 \in {"?", "#"}, p1 \in {"publication=", "offer="}, s2 \in {"&", "&amp;"},
     mid \in {<<>>, <<"no">>}, p2 \in {"publication=", "offer="}}
UrlTexts == {pre \o <<"x">> \o tail : pre \in UrlPrefixes, tail \in UrlTails}
Fragments == [kind : {"ld", "href", "raw"}, text : UrlTexts]
\* later fragments repeat or vary one well-formed offer link
MoreFragments ==
  [kind : {"ld", "href", "raw"},
   text : {pre \o <<"x", "?", "publication=", "1", s2, "offer=", "2">> :
             pre \in {OriginSlash, <<"/">>}, s2 \in {"&", "&amp;"}}]

RECURSIVE HtmlPages(_)
HtmlPages(n) ==
  IF n = 0 THEN {<<>>}
  ELSE IF n = 1 THEN {<<>>} \cup {<<f>> : f \in Fragments}
  ELSE LET prev == HtmlPages(n - 1)
       IN prev \cup {Append(h, f) : h \in {x \in prev : Len(x) = n - 1}, f \in MoreFragments}

XInit == xHtml \in {Some(h) : h \in HtmlPages(MaxFragments)} /\ xOut = Null

\* one call extractOfferUrlsFromSearchHtml(html)
Extract ==
  /\ xHtml # Null /\ xOut = Null
  /\ xOut' = Some(extractOfferUrlsFromSearchHtml(xHtml[1]))
  /\ UNCHANGED <<xHtml, NotExtractor>>

InitExtract == XInit /\ NIdle /\ EIdle /\ SIdle /\ GIdle /\ PIdle /\ MIdle
NextExtract == Extract
SpecExtract == InitExtract /\ [][NextExtract]_vars

InitNormalize == NInit /\ XIdle /\ EIdle /\ SIdle /\ GIdle /\ PIdle /\ MIdle
NextNormalize == Normalize
SpecNormalize == InitNormalize /\ [][NextNormalize]_vars

\* ------------------------------------------------ eta.ts: etaSearchOffers
\* One call of etaSearchOffers, one action per await.  ePc: "idle" before
\* the call, "loop" at the head of the for loop, "sleep" inside
\* sleep(delayMs), "returned" after return out, "thrown" when the promise is
\* rejected.  eLog records every offer-page fetch and every sleep.
OfferLink(store, id) ==
  <<"/", store, "?", "publication=", "1", "&amp;", "offer=", id>>
OfferUrl(store, id) == Origin \o ReplaceAll(OfferLink(store, id), "&amp;", "&")
Href(text) == [kind |-> "href", text |-> text]
SearchPages ==
  {<<>>,
   <<Href(OfferLink("netto", "1"))>>,
   <<Href(OfferLink("netto", "1")), Href(OfferLink("rema", "2"))>>,
   <<[kind |-> "ld", text |-> OfferUrl("netto", "1")], Href(OfferLink("rema", "2")),
     Href(OfferLink("netto", "1"))>>,
   <<Href(OfferLink("netto", "1")), Href(OfferLink("rema", "2")),
     Href(OfferLink("lidl", "3"))>>}

Limits == {1, 2, 40}
Delays == {0, 60}

\* offerUrls.slice(0, limit)
Slice(s, n) == SubSeq(s, 1, IF n < Len(s) THEN n ELSE Len(s))

\* lines 143-177: the payload decoder.  An offer page is read as the
\* sequence of its <app-data ...>...</app-data> elements (line 146); an
\* element is the value of its data-key="..." attribute (none when line 147
\* finds no match) and its inner text, a sequence of lexical pieces.
AppData(key, inner) == [key |-> key, inner |-> inner]

\* lines 159-160: Buffer.from(normalized, "base64").toString("utf8") for the
\* keys of the pages below (URL-safe alphabet, padding optional)
Base64Utf8(dataKey) ==
  CASE dataKey = "WyJvZmZlciIsImExIl0" -> <<"[", "\"offer\"", ",", "\"a1\"", "]">>
    [] dataKey = "WyJvZmZlciIsImExIl0=" -> <<"[", "\"offer\"", ",", "\"a1\"", "]">>
    [] dataKey = "WyJvZmZlcnMiLCJhMSJd" -> <<"[", "\"offers\"", ",", "\"a1\"", "]">>
    [] dataKey = "WyJidXNpbmVzcyIsN10" -> <<"[", "\"business\"", ",", "7", "]">>
    [] OTHER -> <<>>
OfferKeyPrefix == <<"[", "\"offer\"", ",">>

\* line 168: htmlDecode of the html-entities package, for the entities of
\* the pages below
htmlDecode(t) == ReplaceAll(ReplaceAll(t, "&quot;", "\""), "&amp;", "&")

\* the JSON texts of the pages below and the values JSON.parse gives them;
\* every other text makes JSON.parse throw
JsonPricedText == <<"{", "\"", "name", "\"", ":", "\"", "a", "\"", ",", "\"", "price", "\"", ":", "12.5", "}">>
JsonPromoText == <<"{", "\"", "name", "\"", ":", "\"", "10%", "\"", ",", "\"", "seller", "\"", ":", "{", "\"", "name", "\"", ":", "\"", "Netto", "\"", "}", "}">>
JsonNullText == <<"null">>
JsonObject(payload) == [t |-> "obj", payload |-> payload]
JsonNone == [t |-> "null", payload |-> Null]
JsonParse(text) ==
  CASE text = JsonPricedText ->
         Some(JsonObject(MkPayload(Some(<<"a">>), Null, JNum(125000), Undef, Undef, Null)))
    [] text = JsonPromoText ->
         Some(JsonObject(MkPayload(Some(<<"1", "0", "%">>), Null, Undef, Undef, Undef,
                                   Some(<<"N", "e", "t", "t", "o">>))))
    [] text = JsonNullText -> Some(JsonNone)
    [] OTHER -> Null

\* lines 143-177 without the key test of line 165
RECURSIVE extractWhateverKey(_)
extractWhateverKey(html) ==
  IF html = <<>> THEN JsonNone
  ELSE LET el == Head(html)
           innerRaw == Trim(el.inner)
       IN IF IsNull(el.key) THEN extractWhateverKey(Tail(html))
          ELSE IF innerRaw = <<>> THEN extractWhateverKey(Tail(html))
          ELSE LET parsed == JsonParse(Trim(htmlDecode(innerRaw)))
               IN IF IsNull(parsed) THEN extractWhateverKey(Tail(html))
                  ELSE parsed[1]

\* lines 143-177
RECURSIVE extractOfferAppDataPayloadFromOfferHtml(_)
extractOfferAppDataPayloadFromOfferHtml(html) ==
  IF html = <<>> THEN JsonNone
  ELSE LET el == Head(html)
           innerRaw == Trim(el.inner)
       IN IF IsNull(el.key) THEN extractOfferAppDataPayloadFromOfferHtml(Tail(html))
          ELSE IF ~StartsWith(Base64Utf8(el.key[1]), OfferKeyPrefix)
            THEN extractOfferAppDataPayloadFromOfferHtml(Tail(html))
          ELSE IF innerRaw = <<>> THEN extractOfferAppDataPayloadFromOfferHtml(Tail(html))
          ELSE LET parsed == JsonParse(Trim(htmlDecode(innerRaw)))
               IN IF IsNull(parsed) THEN extractOfferAppDataPayloadFromOfferHtml(Tail(html))
                  ELSE parsed[1]

\* line 299: if (payload)
Truthy(value) == value.t = "obj"

\* the offer pages the upstream serves
Escaped(text) == ReplaceAll(text, "\"", "&quot;")
KeyOffer == Some("WyJvZmZlciIsImExIl0")
KeyOfferPadded == Some("WyJvZmZlciIsImExIl0=")
KeyOffers == Some("WyJvZmZlcnMiLCJhMSJd")
KeyBusiness == Some("WyJidXNpbmVzcyIsN10")
OfferPages ==
  {<<>>,
   <<AppData(Null, Escaped(JsonPricedText))>>,
   <<AppData(KeyOffers, Escaped(JsonPricedText))>>,
   <<AppData(KeyOffer, SubSeq(Escaped(JsonPricedText), 1, 5))>>,
   <<AppData(KeyOffer, <<" ">>)>>,
   <<AppData(KeyOffer, JsonNullText)>>,
   <<AppData(KeyOffer, JsonPricedText)>>,
   <<AppData(KeyOfferPadded, <<" ">> \o Escaped(JsonPricedText) \o <<" ">>)>>,
   <<AppData(KeyBusiness, Escaped(JsonPricedText)), AppData(KeyOffer, Escaped(JsonPromoText))>>,
   <<AppData(KeyOffer, <<"<", "p", ">">>), AppData(KeyOffer, Escaped(JsonPromoText))>>}

\* what the upstream does with one fetch: "reject" is a rejected fetch or
\* body read (network error, aborted connection), "status" a non-2xx
\* response, "nodata" a page without a decodable offer payload, "data" a
\* page whose payload decodes
PageOutcomes == {"reject", "status", "nodata", "data"}

\* lines 261-276: the search page
EtaSearchPage ==
  /\ ePc = "idle"
  /\ \E limit \in Limits, delayMs \in Delays :
       /\ eOpts' = Some([limit |-> limit, delayMs |-> delayMs])
       /\ \/ /\ ePc' = "thrown"            \* fetch rejected, or !searchRes.ok
             /\ UNCHANGED <<eUrls, eI>>
          \/ \E html \in SearchPages :
               LET offerUrls == Slice(extractOfferUrlsFromSearchHtml(html), limit)
               IN /\ eUrls' = offerUrls
                  /\ eI' = 1
                  /\ ePc' = IF Len(offerUrls) >= 1 THEN "loop" ELSE "returned"
  /\ UNCHANGED <<eOut, eLog, NotEta>>

\* lines 279-301 with the sleep of line 293 left out: a non-2xx page goes
\* straight on to the next one
EtaOfferPageNoPause ==
  /\ ePc = "loop"
  /\ \E outcome \in PageOutcomes :
       LET url == eUrls[eI]
       IN \/ /\ outcome = "reject"
             /\ ePc' = "thrown"
             /\ eOut' = eOut
             /\ eLog' = Append(eLog, [ev |-> "page", url |-> url, outcome |-> outcome,
                                       html |-> Null, offer |-> Null])
          \/ /\ outcome = "status"
             /\ ePc' = IF eI + 1 <= Len(eUrls) THEN "loop" ELSE "returned"
             /\ eOut' = eOut
             /\ eLog' = Append(eLog, [ev |-> "page", url |-> url, outcome |-> outcome,
                                       html |-> Null, offer |-> Null])
          \/ /\ outcome \in {"nodata", "data"}
             /\ \E html \in OfferPages :
                  LET payload == extractOfferAppDataPayloadFromOfferHtml(html)
                      o == normalizeOfferPayload(payload.payload, url)
                  IN /\ (outcome = "data") <=> Truthy(payload)
                     /\ eOut' = IF Truthy(payload) THEN Append(eOut, o) ELSE eOut
                     /\ eLog' = Append(eLog, [ev |-> "page", url |-> url,
                                              outcome |-> outcome, html |-> Some(html),
                                              offer |-> IF Truthy(payload) THEN Some(o)
                                                        ELSE Null])
             /\ ePc' = "sleep"
  /\ eI' = IF ePc' = "sleep" THEN eI ELSE eI + 1
  /\ UNCHANGED <<eOpts, eUrls, NotEta>>

\* lines 279-301: one offer page, up to the sleep
EtaOfferPage ==
  /\ ePc = "loop"
  /\ \E outcome \in PageOutcomes :
       LET url == eUrls[eI]
       IN \/ /\ outcome = "reject"
             /\ ePc' = "thrown"
             /\ eOut' = eOut
             /\ eLog' = Append(eLog, [ev |-> "page", url |-> url, outcome |-> outcome,
                                       html |-> Null, offer |-> Null])
          \/ /\ outcome = "status"
             /\ ePc' = "sleep"
             /\ eOut' = eOut
             /\ eLog' = Append(eLog, [ev |-> "page", url |-> url, outcome |-> outcome,
                                       html |-> Null, offer |-> Null])
          \/ /\ outcome \in {"nodata", "data"}
             /\ \E html \in OfferPages :
                  LET payload == extractOfferAppDataPayloadFromOfferHtml(html)
                      o == normalizeOfferPayload(payload.payload, url)
                  IN /\ (outcome = "data") <=> Truthy(payload)
                     /\ eOut' = IF Truthy(payload) THEN Append(eOut, o) ELSE eOut
                     /\ eLog' = Append(eLog, [ev |-> "page", url |-> url,
                                              outcome |-> outcome, html |-> Some(html),
                                              offer |-> IF Truthy(payload) THEN Some(o)
                                                        ELSE Null])
             /\ ePc' = "sleep"
  /\ UNCHANGED <<eOpts, eUrls, eI, NotEta>>

\* lines 293 and 303: await sleep(delayMs), then i++ and the loop test
EtaSleep ==
  /\ ePc = "sleep"
  /\ eLog' = Append(eLog, [ev |-> "sleep", url |-> <<>>, outcome |-> "", html |-> Null,
                            offer |-> Null])
  /\ eI' = eI + 1
  /\ ePc' = IF eI + 1 <= Len(eUrls) THEN "loop" ELSE "returned"
  /\ UNCHANGED <<eOpts, eUrls, eOut, NotEta>>

InitEta == EIdle /\ NIdle /\ XIdle /\ SIdle /\ GIdle /\ PIdle /\ MIdle
NextEta == EtaSearchPage \/ EtaOfferPage \/ EtaSleep
SpecEta == InitEta /\ [][NextEta]_vars

\* The same call with the scheduling the code gives it: the timer of
\* sleep() always fires (line 22).  The fetch calls of lines 262 and 282
\* carry no signal and no timeout, so nothing obliges EtaSearchPage or
\* EtaOfferPage to happen: an upstream that never answers leaves the call
\* at its await.
SpecEtaLive == SpecEta /\ WF_vars(EtaSleep)

\* -------------------------------------- api/eta/search/route.ts: GET /search
CACHE_TTL_MS == 5 * 60 * 1000
\* the clock (Date.now(), in ms) advances in steps of 150 s
TickMs == 150 * 1000

Max(a, b) == IF a >= b THEN a ELSE b
Min(a, b) == IF a <= b THEN a ELSE b

\* parseInt(s, 10): leading blanks, an optional sign, then the digits up to
\* the first other character; NaN (null here) when there is no digit
RECURSIVE DigitPrefix(_)
DigitPrefix(s) ==
  IF s # <<>> /\ IsDigit(Head(s)) THEN <<Head(s)>> \o DigitPrefix(Tail(s)) ELSE <<>>
parseInt(s) ==
  LET t == TrimLeft(s)
      neg == t # <<>> /\ Head(t) = "-"
      u == IF t # <<>> /\ Head(t) \in {"-", "+"} THEN Tail(t) ELSE t
      d == DigitPrefix(u)
  IN IF d = <<>> THEN Null
     ELSE Some(IF neg THEN 0 - DigitsValue(d) ELSE DigitsValue(d))

\* url.searchParams.get(name) || dflt: an absent or empty parameter
ParamOr(raw, dflt) == IF IsNull(raw) \/ raw[1] = <<>> THEN dflt ELSE raw[1]
\* parseInt(...) || dflt: NaN and 0 are falsy
IntOr(n, dflt) == IF IsNull(n) \/ n[1] = 0 THEN dflt ELSE n[1]

\* line 23 without the trim
SearchQNoTrim(raw) == ParamOr(raw, <<>>)
\* line 23
SearchQ(raw) == Trim(ParamOr(raw, <<>>))
\* line 24
SearchLimit(raw) == Max(1, Min(80, IntOr(parseInt(ParamOr(raw, <<"4", "0">>)), 40)))
\* line 25
SearchDelayMs(raw) == Max(0, Min(1000, IntOr(parseInt(ParamOr(raw, <<"1", "2", "0">>)), 120)))

\* `${q}::${limit}::${delayMs}`: limit and delayMs are numbers, so the key
\* determines the triple
CacheKey(q, limit, delayMs) == <<q, limit, delayMs>>

\* line 39 with the comparison turned round
IsFreshReversed(now, t) == now - t > CACHE_TTL_MS
\* line 39
IsFresh(now, t) == now - t < CACHE_TTL_MS

HasPrice(o) == ~IsNull(o.price)
HasNoPrice(o) == IsNull(o.price)

\* lines 45-58 with the promotions left out of counts.total
SearchPayloadTotalOffers(q, all) ==
  LET offers == SelectSeq(all, HasPrice)
      promotions == SelectSeq(all, HasNoPrice)
  IN [q |-> q, cached |-> FALSE,
      counts |-> [total |-> Len(offers), offers |-> Len(offers),
                  promotions |-> Len(promotions)],
      offers |-> offers, promotions |-> promotions]
\* lines 45-58
SearchPayload(q, all) ==
  LET offers == SelectSeq(all, HasPrice)
      promotions == SelectSeq(all, HasNoPrice)
  IN [q |-> q, cached |-> FALSE,
      counts |-> [total |-> Len(offers) + Len(promotions), offers |-> Len(offers),
                  promotions |-> Len(promotions)],
      offers |-> offers, promotions |-> promotions]
\* lines 28-31
EmptySearchPayload ==
  [q |-> <<>>, cached |-> FALSE, counts |-> [total |-> 0, offers |-> 0, promotions |-> 0],
   offers |-> <<>>, promotions |-> <<>>]

\* what etaSearchOffers can return to the handler
PricedOffer == normalizeOfferPayload(
  MkPayload(Some(<<"a">>), Null, JNum(125000), Undef, Undef, Null), OfferUrl("netto", "1"))
PromoOffer == normalizeOfferPayload(
  MkPayload(Some(<<"1", "0", "%">>), Null, Undef, Undef, Undef, Null), OfferUrl("rema", "2"))
SearchResults == {<<>>, <<PricedOffer, PromoOffer>>}

\* the query strings of the requests: q absent, empty, blank, "a" (with blanks to
\* trim, with a limit)
SearchParams ==
  {[q |-> Null, limit |-> Null, delayMs |-> Null],
   [q |-> Some(<<>>), limit |-> Null, delayMs |-> Null],
   [q |-> Some(<<" ">>), limit |-> Null, delayMs |-> Null],
   [q |-> Some(<<"a">>), limit |-> Null, delayMs |-> Null],
   [q |-> Some(<<"a", " ">>), limit |-> Some(<<"4", "0">>), delayMs |-> Null],
   [q |-> Some(<<"a">>), limit |-> Some(<<"1", "0">>), delayMs |-> Null]}

CacheHas(key) == key \in DOMAIN sCache
CachePut(key, entry) ==
  [k \in DOMAIN sCache \cup {key} |-> IF k = key THEN entry ELSE sCache[k]]

Respond(status, body) == Some([status |-> status, body |-> body])

\* a q parameter that is absent, empty or made of blanks only
BlankParam(raw) == IsNull(raw) \/ \A i \in 1..Len(raw[1]) : raw[1][i] = " "

\* Date.now() moves on between two steps of the handlers
SearchTick ==
  /\ sNow < MaxClock * TickMs
  /\ sNow' = sNow + TickMs
  /\ UNCHANGED <<sCache, sReqs, sFetches, NotSearch>>

\* the requests that have stored a result under key so far
StoredWith(key) == {r \in DOMAIN sReqs : sReqs[r].stored /\ sReqs[r].key = key}

\* lines 21-43: from the request to the response of an empty query or of a
\* cache hit, or to the await of etaSearchOffers.  Requests are numbered in
\* the order they start.  History kept for the properties: after, the
\* requests that had stored a result under the same key when this one
\* started; sawBy, the request that wrote the entry found under the key
\* (0: no entry); blank, whether the q sent was absent or all blanks.  A
\* request that returns at line 28 reads neither the clock nor the cache.
SearchStart ==
  /\ Len(sReqs) < MaxReqs
  /\ \E params \in SearchParams :
       LET qRaw == params.q
           q == SearchQ(qRaw)
           limit == SearchLimit(params.limit)
           delayMs == SearchDelayMs(params.delayMs)
           cacheKey == CacheKey(q, limit, delayMs)
           now == sNow
           req == [blank |-> BlankParam(qRaw), key |-> cacheKey, now |-> IF q = <<>> THEN 0 ELSE now,
                   after |-> IF q = <<>> THEN {} ELSE StoredWith(cacheKey),
                   sawBy |-> IF q # <<>> /\ CacheHas(cacheKey) THEN sCache[cacheKey].by ELSE 0,
                   fetched |-> FALSE, stored |-> FALSE, pc |-> "done", resp |-> Null]
       IN IF q = <<>>
          THEN /\ sReqs' = Append(sReqs, [req EXCEPT !.resp = Respond(200, EmptySearchPayload)])
               /\ UNCHANGED sFetches
          ELSE IF CacheHas(cacheKey) /\ IsFresh(now, sCache[cacheKey].t)
          THEN /\ sReqs' = Append(sReqs, [req EXCEPT !.resp = Respond(200, sCache[cacheKey].data)])
               /\ UNCHANGED sFetches
          ELSE /\ sReqs' = Append(sReqs, [req EXCEPT !.pc = "fetching", !.fetched = TRUE])
               /\ sFetches' = sFetches + 1
  /\ UNCHANGED <<sNow, sCache, NotSearch>>

\* lines 43-61: etaSearchOffers returned
SearchFetched ==
  \E r \in DOMAIN sReqs, all \in SearchResults :
    /\ sReqs[r].pc = "fetching"
    /\ LET payload == SearchPayload(sReqs[r].key[1], all)
       IN /\ sCache' = CachePut(sReqs[r].key,
                                [t |-> sReqs[r].now, data |-> payload, by |-> r])
          /\ sReqs' = [sReqs EXCEPT ![r].pc = "done", ![r].stored = TRUE,
                                     ![r].resp = Respond(200, payload)]
    /\ UNCHANGED <<sNow, sFetches, NotSearch>>

\* line 43 with the failure stored: the empty payload is put under the key
SearchThrownCached ==
  \E r \in DOMAIN sReqs :
    /\ sReqs[r].pc = "fetching"
    /\ sReqs' = [sReqs EXCEPT ![r].pc = "done",
                               ![r].resp = Respond(500, EmptySearchPayload)]
    /\ sCache' = CachePut(sReqs[r].key,
                          [t |-> sReqs[r].now, data |-> EmptySearchPayload, by |-> r])
    /\ UNCHANGED <<sNow, sFetches, NotSearch>>

\* line 43: etaSearchOffers threw; the handler has no catch, the framework
\* answers 500
SearchThrown ==
  \E r \in DOMAIN sReqs :
    /\ sReqs[r].pc = "fetching"
    /\ sReqs' = [sReqs EXCEPT ![r].pc = "done",
                               ![r].resp = Respond(500, EmptySearchPayload)]
    /\ UNCHANGED <<sNow, sCache, sFetches, NotSearch>>

InitSearch == SIdle /\ NIdle /\ XIdle /\ EIdle /\ GIdle /\ PIdle /\ MIdle
NextSearch == SearchTick \/ SearchStart \/ SearchFetched \/ SearchThrown
SpecSearch == InitSearch /\ [][NextSearch]_vars

\* ------------------ /search: the limit and delayMs parameters on their own
\* The texts a caller puts in limit= and delayMs= (absent: null).
ParamChars == {"-", "0", "1", "9", "a", " "}
ParamTexts == {Null} \cup {Some(t) : t \in SeqsUpTo(ParamChars, MaxParamLen)}
FewParamTexts == {Null, Some(<<"0">>), Some(<<"9", "9", "9", "9">>)}
ParamPairs ==
  [limit : ParamTexts, delayMs : FewParamTexts] \cup
  [limit : FewParamTexts, delayMs : ParamTexts]
PInit == pRaw \in ParamPairs /\ pOpts = Null

\* lines 24-25, and the options line 43 hands to etaSearchOffers
ReadParams ==
  /\ pOpts = Null
  /\ pOpts' = Some([limit |-> SearchLimit(pRaw.limit),
                    delayMs |-> SearchDelayMs(pRaw.delayMs)])
  /\ UNCHANGED <<pRaw, NotParams>>

InitParams == PInit /\ NIdle /\ XIdle /\ EIdle /\ SIdle /\ GIdle /\ MIdle
NextParams == ReadParams
SpecParams == InitParams /\ [][NextParams]_vars

\* ------------------------------------ api/eta/guide/route.ts: text helpers
Uppers ==
  <<"A", "B", "C", "D", "E", "F", "G", "H", "I", "J", "K", "L", "M", "N", "O", "P", "Q",
    "R", "S", "T", "U", "V", "W", "X", "Y", "Z", "AE", "OE", "AA", "UE">>
Lowers ==
  <<"a", "b", "c", "d", "e", "f", "g", "h", "i", "j", "k", "l", "m", "n", "o", "p", "q",
    "r", "s", "t", "u", "v", "w", "x", "y", "z", "ae", "oe", "aa", "ue">>
\* String.prototype.toLowerCase, one character
LowerChar(c) ==
  IF \E i \in 1..Len(Uppers) : Uppers[i] = c
  THEN Lowers[CHOOSE i \in 1..Len(Uppers) : Uppers[i] = c] ELSE c
\* [a-z0-9æøå] ("ue", the u-umlaut, is not in the class)
IsWordChar(c) ==
  (IsDigit(c) \/ \E i \in 1..Len(Lowers) : Lowers[i] = c) /\ c # "ue"

RECURSIVE MapLower(_)
MapLower(s) == IF s = <<>> THEN <<>> ELSE <<LowerChar(Head(s))>> \o MapLower(Tail(s))

\* .replace(/\([^)]*\)/g, " "): from a "(" to the next ")"
RECURSIVE StripParens(_)
StripParens(s) ==
  IF s = <<>> THEN <<>>
  ELSE IF Head(s) = "(" /\ \E i \in 1..Len(Tail(s)) : Tail(s)[i] = ")"
    THEN <<" ">> \o StripParens(After(Tail(s), ")"))
  ELSE <<Head(s)>> \o StripParens(Tail(s))

\* .replace(/[^a-z0-9æøå\s]/gi, " ")
RECURSIVE StripPunct(_)
StripPunct(s) ==
  IF s = <<>> THEN <<>>
  ELSE <<(IF IsWordChar(Head(s)) \/ IsSpace(Head(s)) THEN Head(s) ELSE " ")>>
         \o StripPunct(Tail(s))

\* .replace(/\s+/g, " ")
RECURSIVE CollapseSpaces(_)
CollapseSpaces(s) ==
  IF s = <<>> THEN <<>>
  ELSE IF IsSpace(Head(s)) /\ Tail(s) # <<>> /\ IsSpace(Head(Tail(s)))
    THEN CollapseSpaces(Tail(s))
  ELSE <<Head(s)>> \o CollapseSpaces(Tail(s))

\* lines 26-33
normalizeText(x) == Trim(CollapseSpaces(StripPunct(StripParens(MapLower(x)))))

\* s.split(" ")
RECURSIVE SplitSpace(_)
SplitSpace(s) ==
  IF \A i \in 1..Len(s) : ~IsSpace(s[i]) THEN <<s>>
  ELSE <<UpTo(s, " ")>> \o SplitSpace(After(s, " "))

IncludesAny(s, list) == \E i \in 1..Len(list) : Includes(s, list[i])

\* lines 35-45 without the seen set
RECURSIVE uniqStringsKeepAll(_)
uniqStringsKeepAll(xs) ==
  IF xs = <<>> THEN <<>>
  ELSE LET init == uniqStringsKeepAll(SubSeq(xs, 1, Len(xs) - 1))
           x == Trim(xs[Len(xs)])
       IN IF x = <<>> THEN init ELSE Append(init, x)

\* lines 35-45: trim, drop the empty strings, keep the first of equal strings
RECURSIVE uniqStrings(_)
uniqStrings(xs) ==
  IF xs = <<>> THEN <<>>
  ELSE LET init == uniqStrings(SubSeq(xs, 1, Len(xs) - 1))
           x == Trim(xs[Len(xs)])
       IN IF x = <<>> \/ \E i \in 1..Len(init) : init[i] = x THEN init ELSE Append(init, x)

StoreDeny ==
  <<<<"f", "l", "e", "g", "g", "a", "a", "r", "d">>,
   <<"c", "a", "l", "l", "e">>,
   <<"b", "o", "r", "d", "e", "r", "s", "h", "o", "p">>,
   <<"b", "o", "r", "d", "e", "r", " ", "s", "h", "o", "p">>,
   <<"h", "e", "l", "s", "a", "m">>>>
StoreAllow ==
  <<<<"f", "oe", "t", "e", "x">>,
   <<"f", "o", "t", "e", "x">>,
   <<"b", "i", "l", "k", "a">>,
   <<"n", "e", "t", "t", "o">>,
   <<"r", "e", "m", "a">>,
   <<"r", "e", "m", "a", " ", "1", "0", "0", "0">>,
   <<"l", "i", "d", "l">>,
   <<"m", "e", "n", "y">>,
   <<"s", "p", "a", "r">>,
   <<"m", "i", "n", " ", "k", "oe", "b", "m", "a", "n", "d">>,
   <<"m", "i", "n", " ", "k", "o", "b", "m", "a", "n", "d">>,
   <<"s", "u", "p", "e", "r", "b", "r", "u", "g", "s", "e", "n">>,
   <<"k", "v", "i", "c", "k", "l", "y">>,
   <<"b", "r", "u", "g", "s", "e", "n">>,
   <<"d", "a", "g", "l", "i", " ", "b", "r", "u", "g", "s", "e", "n">>,
   <<"d", "a", "g", "l", "i", "'", "b", "r", "u", "g", "s", "e", "n">>,
   <<"3", "6", "5", "d", "i", "s", "c", "o", "u", "n", "t">>,
   <<"3", "6", "5", " ", "d", "i", "s", "c", "o", "u", "n", "t">>,
   <<"c", "o", "o", "p">>,
   <<"a", "b", "c", " ", "l", "a", "v", "p", "r", "i", "s">>,
   <<"l", "oe", "v", "b", "j", "e", "r", "g">>,
   <<"l", "o", "v", "b", "j", "e", "r", "g">>,
   <<"n", "e", "m", "l", "i", "g">>,
   <<"n", "e", "m", "l", "i", "g", " ", "c", "o", "m">>>>

\* lines 47-87 without the deny loop of lines 50-53
isAllowedStoreNoDeny(store) ==
  LET s == normalizeText(IF IsNull(store) THEN <<>> ELSE store[1])
  IN \E i \in 1..Len(StoreAllow) : Includes(s, normalizeText(StoreAllow[i]))

\* lines 47-87; store is null or a string
isAllowedStore(store) ==
  LET s == normalizeText(IF IsNull(store) THEN <<>> ELSE store[1])
  IN IF IncludesAny(s, StoreDeny) THEN FALSE
     ELSE \E i \in 1..Len(StoreAllow) : Includes(s, normalizeText(StoreAllow[i]))

JunkDeny ==
  <<<<"s", "a", "f", "t", "e", "v", "a", "n", "d">>,
   <<"s", "o", "d", "a", "v", "a", "n", "d">>,
   <<"c", "o", "l", "a">>,
   <<"l", "e", "m", "o", "n", "a", "d", "e">>,
   <<"e", "n", "e", "r", "g", "i", "d", "r", "i", "k">>,
   <<"e", "n", "e", "r", "g", "y", " ", "d", "r", "i", "n", "k">>,
   <<"p", "r", "o", "t", "e", "i", "n", "b", "a", "r">>,
   <<"p", "r", "o", "t", "e", "i", "n", " ", "b", "a", "r">>,
   <<"m", "ue", "e", "s", "l", "i", "b", "a", "r">>,
   <<"m", "u", "e", "s", "l", "i", "b", "a", "r">>,
   <<"s", "n", "a", "c", "k", "b", "a", "r">>,
   <<"s", "l", "i", "k">>,
   <<"c", "h", "o", "k", "o", "l", "a", "d", "e">>,
   <<"c", "h", "i", "p", "s">>,
   <<"k", "i", "k", "s">>,
   <<"b", "o", "l", "c", "h", "e">>,
   <<"v", "i", "n">>,
   <<"oe", "l">>,
   <<"s", "p", "i", "r", "i", "t", "u", "s">>,
   <<"c", "o", "c", "k", "t", "a", "i", "l">>>>

\* lines 89-120
isJunkOfferName(name) ==
  LET n == normalizeText(IF IsNull(name) THEN <<>> ELSE name[1])
  IN IF n = <<>> THEN FALSE
     ELSE IF \E i \in 1..Len(JunkDeny) : Includes(n, normalizeText(JunkDeny[i])) THEN TRUE
     ELSE Includes(n, <<"j", "u", "i", "c", "e">>) \/ Includes(n, <<"s", "a", "f", "t">>)

\* lines 122-127
hasWholeWord(haystackNorm, needleNorm) ==
  IF haystackNorm = <<>> \/ needleNorm = <<>> THEN FALSE
  ELSE Includes(<<" ">> \o haystackNorm \o <<" ">>, <<" ">> \o needleNorm \o <<" ">>)

\* lines 129-136
tokenizeQuery(q) ==
  LET n == normalizeText(q)
  IN IF n = <<>> THEN <<>>
     ELSE SelectSeq([i \in 1..Len(SplitSpace(n)) |-> Trim(SplitSpace(n)[i])],
                    LAMBDA t : Len(t) >= 2)

Maelk == <<"m", "ae", "l", "k">>
Milk == <<"m", "i", "l", "k">>
\* lines 138-140
isMilkQuery(qNorm) == qNorm = Maelk \/ qNorm = Milk

\* line 144 with the cocoa entry alone
MilkDenyKakaoOnly == <<<<"k", "a", "k", "a", "o">>>>
\* line 144
MilkDeny ==
  <<<<"k", "a", "k", "a", "o">>,
   <<"c", "h", "o", "k", "o", "l", "a", "d", "e">>,
   <<"j", "o", "r", "d", "b", "ae", "r">>,
   <<"v", "a", "n", "i", "l">>,
   <<"p", "r", "o", "t", "e", "i", "n">>,
   <<"s", "h", "a", "k", "e">>>>
MilkAllowExact ==
  {<<"m", "ae", "l", "k">>,
   <<"l", "e", "t", "m", "ae", "l", "k">>,
   <<"m", "i", "n", "i", "m", "ae", "l", "k">>,
   <<"s", "k", "u", "m", "m", "e", "t", "m", "ae", "l", "k">>,
   <<"s", "k", "u", "m", "m", "e", "m", "ae", "l", "k">>,
   <<"s", "oe", "d", "m", "ae", "l", "k">>,
   <<"k", "ae", "r", "n", "e", "m", "ae", "l", "k">>}

\* lines 142-167 as a plain test for "maelk" inside the name
milkMatchSubstring(nameNorm) == Includes(nameNorm, Maelk)

\* lines 142-167
milkMatch(nameNorm) ==
  IF Includes(nameNorm, Maelk) /\ IncludesAny(nameNorm, MilkDeny) THEN FALSE
  ELSE LET toks == SelectSeq([i \in 1..Len(SplitSpace(nameNorm)) |->
                                Trim(SplitSpace(nameNorm)[i])], LAMBDA t : t # <<>>)
       IN IF \E i \in 1..Len(toks) : toks[i] \in MilkAllowExact THEN TRUE
          ELSE hasWholeWord(nameNorm, Maelk)

\* lines 169-183 without the length filter of line 176
offerMatchesQueryShortTokens(offerName, query) ==
  LET nameNorm == normalizeText(IF IsNull(offerName) THEN <<>> ELSE offerName[1])
      qNorm == normalizeText(query)
  IN IF nameNorm = <<>> \/ qNorm = <<>> THEN FALSE
     ELSE IF isMilkQuery(qNorm) THEN milkMatch(nameNorm)
     ELSE LET toks == tokenizeQuery(qNorm)
          IN IF Len(toks) = 0 THEN FALSE
             ELSE \E i \in 1..Len(toks) : hasWholeWord(nameNorm, toks[i])

\* lines 169-183; offerName is null or a string
offerMatchesQuery(offerName, query) ==
  LET nameNorm == normalizeText(IF IsNull(offerName) THEN <<>> ELSE offerName[1])
      qNorm == normalizeText(query)
  IN IF nameNorm = <<>> \/ qNorm = <<>> THEN FALSE
     ELSE IF isMilkQuery(qNorm) THEN milkMatch(nameNorm)
     ELSE LET toks == SelectSeq(tokenizeQuery(qNorm), LAMBDA t : Len(t) >= 3)
          IN IF Len(toks) = 0 THEN FALSE
             ELSE \E i \in 1..Len(toks) : hasWholeWord(nameNorm, toks[i])

MilkTerms ==
  <<<<"m", "ae", "l", "k">>,
   <<"s", "k", "u", "m", "m", "e", "t", "m", "ae", "l", "k">>,
   <<"s", "k", "u", "m", "m", "e", "m", "ae", "l", "k">>,
   <<"l", "e", "t", "m", "ae", "l", "k">>,
   <<"s", "oe", "d", "m", "ae", "l", "k">>,
   <<"m", "i", "n", "i", "m", "ae", "l", "k">>,
   <<"k", "ae", "r", "n", "e", "m", "ae", "l", "k">>,
   <<"oe", "k", "o", "l", "o", "g", "i", "s", "k", " ", "m", "ae", "l", "k">>>>

\* lines 185-204
expandQuery(q) ==
  LET qNorm == normalizeText(q)
  IN IF qNorm = <<>> THEN <<>>
     ELSE IF qNorm = Maelk \/ qNorm = Milk THEN uniqStrings(MilkTerms)
     ELSE IF Includes(qNorm, <<"l", "i", "m", "e">>) /\ (Includes(qNorm, <<"j", "u", "i", "c", "e">>) \/ Includes(qNorm, <<"s", "a", "f", "t">>))
       THEN <<<<"l", "i", "m", "e">>, <<"l", "i", "m", "e", "s">>, <<"l", "i", "m", "e", "f", "r", "u", "g", "t">>>>
     ELSE <<q>>

\* ------------------------------- guide/route.ts: the matcher by itself
\* offerMatchesQuery and expandQuery applied to one offer name and one
\* query.  A name is null or up to MaxNameWords words joined by blanks.
NameWords ==
  {<<"M", "ae", "l", "k">>,
   <<"l", "e", "t", "m", "ae", "l", "k">>,
   <<"K", "a", "k", "a", "o", "m", "ae", "l", "k">>,
   <<"m", "ae", "l", "k", "e", "s", "n", "i", "t", "t", "e">>,
   <<"v", "a", "n", "i", "l", "j", "e">>,
   <<"k", "a", "k", "a", "o">>,
   <<"o", "s", "t">>,
   <<"a", "b">>,
   <<"O", "s", "t", ",">>,
   <<"(", "m", "ae", "l", "k", ")">>}
RECURSIVE JoinWords(_)
JoinWords(ws) ==
  IF ws = <<>> THEN <<>>
  ELSE IF Len(ws) = 1 THEN ws[1]
  ELSE ws[1] \o <<" ">> \o JoinWords(Tail(ws))
MatchNames == {Null} \cup {Some(JoinWords(ws)) : ws \in SeqsUpTo(NameWords, MaxNameWords)}
MatchQueries ==
  {<<"m", "ae", "l", "k">>,
   <<"M", "i", "l", "k">>,
   <<" ", "M", "AE", "L", "K", "!">>,
   <<"o", "s", "t">>,
   <<"a", "b">>,
   <<"a", "b", " ", "o", "s", "t">>,
   <<"a", " ", "b">>,
   <<>>,
   <<" ">>,
   <<"?">>,
   <<"l", "e", "t", "m", "ae", "l", "k">>,
   <<"o", "s", "t", " ", "o", "g", " ", "m", "ae", "l", "k">>,
   <<"l", "i", "m", "e", " ", "j", "u", "i", "c", "e">>,
   <<"L", "i", "m", "e", "s", "a", "f", "t">>,
   <<"(", "oe", "k", "o", ")">>}

MInit == mName \in MatchNames /\ mQuery \in MatchQueries /\ mMatch = Null /\ mTerms = Null

\* lines 269-277: one call of offerMatchesQuery
MatchOffer ==
  /\ mMatch = Null
  /\ mMatch' = Some(offerMatchesQuery(mName, mQuery))
  /\ UNCHANGED <<mName, mQuery, mTerms, NotMatcher>>

\* line 221: one call of expandQuery
ExpandOne ==
  /\ mTerms = Null
  /\ mTerms' = Some(expandQuery(mQuery))
  /\ UNCHANGED <<mName, mQuery, mMatch, NotMatcher>>

InitMatcher == MInit /\ NIdle /\ XIdle /\ EIdle /\ SIdle /\ PIdle /\ GIdle
NextMatcher == MatchOffer \/ ExpandOne
SpecMatcher == InitMatcher /\ [][NextMatcher]_vars

\* ------------------------------------- api/eta/guide/route.ts: GET /guide
\* Prices of this part are whole DKK.  The comparators of lines 286 and
\* 312-313 use 1e12 for a missing price; with 32-bit integers the model uses
\* 10^9, above every catalogue price.
MissingPrice == 1000000000
MaxGuideQueries == 10
MaxGuideStores == 10
MaxSampleOffers == 4

MkOffer(url, store, name, price) ==
  [sourceUrl |-> url, store |-> Some(store), name |-> Some(name), price |-> price,
   kind |-> IF IsNull(price) THEN "promotion" ELSE "offer", discountPercent |-> Null]

\* the offers the upstream site can serve, one per offer page
Catalogue ==
  <<MkOffer(OfferUrl("netto", "1"), <<"N", "e", "t", "t", "o">>, <<"L", "e", "t", "m", "ae", "l", "k", " ", "1", "L">>, Some(12)),
    MkOffer(OfferUrl("netto", "2"), <<"N", "e", "t", "t", "o">>, <<"L", "oe", "g", " ", "1", "k", "g">>, Some(12)),
    MkOffer(OfferUrl("lidl", "3"), <<"L", "i", "d", "l">>, <<"K", "a", "k", "a", "o", "m", "ae", "l", "k">>, Some(15)),
    MkOffer(OfferUrl("lidl", "4"), <<"L", "i", "d", "l">>, <<"L", "oe", "g", " ", "1", "k", "g">>, Some(10)),
    MkOffer(OfferUrl("rema-1000", "5"), <<"R", "e", "m", "a", " ", "1", "0", "0", "0">>, <<"L", "oe", "g">>, Some(10)),
    MkOffer(OfferUrl("fleggaard", "6"), <<"F", "l", "e", "g", "g", "a", "a", "r", "d">>, <<"L", "oe", "g">>, Some(5))>>
CatIdx == 1..Len(Catalogue)

\* the query lists a caller sends (qs split at ",", or the q values)
QMaelk == <<"m", "ae", "l", "k">>
QLoeg == <<"l", "oe", "g">>
QLoegUpper == <<"L", "oe", "g", " ">>
QKakao == <<"K", "a", "k", "a", "o", "m", "ae", "l", "k", " ">>
QBlank == <<" ">>
GuideRequests ==
  {<<>>, <<QBlank>>, <<QMaelk>>, <<QLoeg>>, <<QLoegUpper>>,
   <<QMaelk, QLoeg>>, <<QLoeg, QMaelk>>, <<QLoeg, QBlank, QLoeg>>,
   <<QMaelk, QLoeg, QKakao>>}
QueryStrings == UNION {{xs[i] : i \in 1..Len(xs)} : xs \in GuideRequests}

\* A second upstream for requests wider than the limits of lines 212 and
\* 320: thirteen offers of allow-listed stores, each named after one of
\* thirteen distinct words, and the word lists a caller sends.  One chain
\* is listed under two spellings of its name.
MaxWideFetched == 38
MaxWideThrown == 2
WideStores ==
  <<<<"F", "oe", "t", "e", "x">>,
    <<"B", "i", "l", "k", "a">>,
    <<"N", "e", "t", "t", "o">>,
    <<"N", "E", "T", "T", "O">>,
    <<"R", "e", "m", "a", " ", "1", "0", "0", "0">>,
    <<"L", "i", "d", "l">>,
    <<"M", "e", "n", "y">>,
    <<"S", "p", "a", "r">>,
    <<"M", "i", "n", " ", "K", "oe", "b", "m", "a", "n", "d">>,
    <<"K", "v", "i", "c", "k", "l", "y">>,
    <<"S", "u", "p", "e", "r", "B", "r", "u", "g", "s", "e", "n">>,
    <<"C", "o", "o", "p">>,
    <<"N", "e", "m", "l", "i", "g">>>>
WideSlugs ==
  <<"foetex", "bilka", "netto", "netto", "rema-1000", "lidl", "meny", "spar", "min-koebmand", "kvickly", "superbrugsen", "coop", "nemlig">>
WideLetters == <<"a", "b", "c", "d", "e", "f", "g", "h", "i", "j", "k", "l", "m">>
WideWord(k) == <<"v", "a", "r", "e", WideLetters[k]>>
WideIdx == 1..Len(WideStores)
WideCatalogue ==
  [k \in WideIdx |-> MkOffer(OfferUrl(WideSlugs[k], WideLetters[k]), WideStores[k], WideWord(k), Some(20 + k))]
WideList == [k \in WideIdx |-> WideWord(k)]

\* what the searches of the wide upstream return beside the wide catalogue:
\* offers of a border shop, of a store on both lists, of an unknown store
\* and of no store, a soft drink, and a promotion without a price
WideRejects ==
  <<MkOffer(OfferUrl("fleggaard", "n"), <<"F", "l", "e", "g", "g", "a", "a", "r", "d">>, WideWord(1), Some(1)),
    MkOffer(OfferUrl("netto-bordershop", "o"), <<"N", "e", "t", "t", "o", " ", "B", "o", "r", "d", "e", "r", "s", "h", "o", "p">>, WideWord(1), Some(2)),
    MkOffer(OfferUrl("kiosk", "p"), <<"K", "i", "o", "s", "k">>, WideWord(1), Some(3)),
    [MkOffer(OfferUrl("x", "q"), <<>>, WideWord(1), Some(4)) EXCEPT !.store = Null],
    MkOffer(OfferUrl("netto", "r"), <<"N", "e", "t", "t", "o">>, <<"C", "o", "l", "a", " ", "1", ",", "5", " ", "L">>, Some(5)),
    MkOffer(OfferUrl("netto", "s"), <<"N", "e", "t", "t", "o">>, WideWord(1), Null)>>
WideServed == WideRejects \o WideCatalogue
WideRequests ==
  {Slice(WideList, n) : n \in {0, 1, MaxGuideQueries, MaxGuideQueries + 1, Len(WideList)}}
    \cup {<<QBlank>>, <<QBlank, WideWord(1), WideWord(1)>> \o WideList,
          <<QMaelk, WideWord(1)>>}

\* the texts the handler normalizes, evaluated once
KnownNames == {Catalogue[i].name : i \in CatIdx} \cup {WideServed[k].name : k \in 1..Len(WideServed)}
KnownStores == {Catalogue[i].store : i \in CatIdx} \cup {WideServed[k].store : k \in 1..Len(WideServed)}
KnownQueries == {Trim(q) : q \in QueryStrings} \cup {WideWord(k) : k \in WideIdx}
MatchTable == [n \in KnownNames |-> [q \in KnownQueries |-> offerMatchesQuery(n, q)]]
AllowedTable == [s \in KnownStores |-> isAllowedStore(s)]
JunkTable == [n \in KnownNames |-> isJunkOfferName(n)]
Matches(name, q) ==
  IF name \in KnownNames /\ q \in KnownQueries THEN MatchTable[name][q]
  ELSE offerMatchesQuery(name, q)
AllowedStore(store) ==
  IF store \in KnownStores THEN AllowedTable[store] ELSE isAllowedStore(store)
JunkName(name) == IF name \in KnownNames THEN JunkTable[name] ELSE isJunkOfferName(name)

PriceOrMissing(p) == IF IsNull(p) THEN MissingPrice ELSE p[1]
\* line 286
ByPrice(a, b) == PriceOrMissing(a.price) - PriceOrMissing(b.price)
\* lines 310-315 with the price test left out
ByCoverageOnly(a, b) == b.coverageCount - a.coverageCount
\* lines 310-315
ByCoverageThenPrice(a, b) ==
  IF b.coverageCount # a.coverageCount THEN b.coverageCount - a.coverageCount
  ELSE PriceOrMissing(a.bestPrice) - PriceOrMissing(b.bestPrice)

\* the comparator called name
Compare(name, a, b) ==
  IF name = "price" THEN ByPrice(a, b) ELSE ByCoverageThenPrice(a, b)

\* Array.prototype.sort with a comparator: stable
RECURSIVE InsertSorted(_, _, _)
InsertSorted(sorted, x, cmp) ==
  IF sorted = <<>> THEN <<x>>
  ELSE IF Compare(cmp, Head(sorted), x) > 0 THEN <<x>> \o sorted
  ELSE <<Head(sorted)>> \o InsertSorted(Tail(sorted), x, cmp)
RECURSIVE StableSort(_, _)
StableSort(s, cmp) ==
  IF s = <<>> THEN <<>>
  ELSE InsertSorted(StableSort(SubSeq(s, 1, Len(s) - 1), cmp), s[Len(s)], cmp)

RECURSIVE Flatten(_)
Flatten(ss) == IF ss = <<>> THEN <<>> ELSE Head(ss) \o Flatten(Tail(ss))

\* lines 237-249: the offers of one query, over the arrays of its terms
RECURSIVE MergeOffers(_, _)
MergeOffers(merged, arr) ==
  IF arr = <<>> THEN merged
  ELSE LET o == Head(arr)
           key == Trim(o.sourceUrl)
           skip == \/ IsNull(o.price)
                   \/ ~AllowedStore(o.store)
                   \/ JunkName(o.name)
                   \/ key = <<>>
                   \/ \E i \in 1..Len(merged) : Trim(merged[i].sourceUrl) = key
       IN MergeOffers(IF skip THEN merged ELSE Append(merged, o), Tail(arr))
MergeFetched(fetched) == MergeOffers(<<>>, Flatten(fetched))

\* (o.store || "").trim(), evaluated once for the catalogue stores
TrimmedStore(store) == IF IsNull(store) THEN <<>> ELSE Trim(store[1])
StoreKeyTable == [s \in KnownStores |-> TrimmedStore(s)]
StoreKey(o) == IF o.store \in KnownStores THEN StoreKeyTable[o.store] ELSE TrimmedStore(o.store)

\* lines 255-263: the keys of storeMap in insertion order
RECURSIVE StoreOrder(_, _)
StoreOrder(seen, offers) ==
  IF offers = <<>> THEN seen
  ELSE LET store == StoreKey(Head(offers))
       IN StoreOrder(IF store = <<>> \/ \E i \in 1..Len(seen) : seen[i] = store
                     THEN seen ELSE Append(seen, store), Tail(offers))
StoreOffers(store, offers) == SelectSeq(offers, LAMBDA o : StoreKey(o) = store)

\* lines 274-282 with the first matching price kept (no p < bestPrice)
RECURSIVE BestPriceFirst(_, _, _)
BestPriceFirst(best, offers, queries) ==
  IF offers = <<>> THEN best
  ELSE LET o == Head(offers)
           anyOk == \E i \in 1..Len(queries) : Matches(o.name, queries[i])
           next == IF anyOk /\ ~IsNull(o.price) /\ IsNull(best) THEN o.price ELSE best
       IN BestPriceFirst(next, Tail(offers), queries)

\* lines 274-282
RECURSIVE BestPrice(_, _, _)
BestPrice(best, offers, queries) ==
  IF offers = <<>> THEN best
  ELSE LET o == Head(offers)
           anyOk == \E i \in 1..Len(queries) : Matches(o.name, queries[i])
           next == IF anyOk /\ ~IsNull(o.price) /\ (IsNull(best) \/ o.price[1] < best[1])
                   THEN o.price ELSE best
       IN BestPrice(next, Tail(offers), queries)

\* lines 284-295
SampleOffers(offers) ==
  LET usable == SelectSeq(offers, LAMBDA o : o.sourceUrl # <<>> /\ ~IsNull(o.price))
      sorted == StableSort(usable, "price")
  IN [i \in 1..Min(MaxSampleOffers, Len(sorted)) |->
        [name |-> sorted[i].name, price |-> sorted[i].price,
         sourceUrl |-> sorted[i].sourceUrl]]

\* Math.round(count / total * 100) for 0 <= count <= total, total > 0
RoundPct(count, total) == (200 * count + total) \div (2 * total)

\* lines 266-308 with the test of line 277 left out: the best price is the
\* lowest price of the store
StoreRowBestOfAll(store, offers, queries) ==
  LET matched == SelectSeq(queries,
                   LAMBDA q : \E i \in 1..Len(offers) : Matches(offers[i].name, q))
      coverageCount == Len(matched)
      byPrice == StableSort(offers, "price")
  IN [store |-> store,
      coverageCount |-> coverageCount,
      coveragePct |-> IF Len(queries) > 0 THEN RoundPct(coverageCount, Len(queries)) ELSE 0,
      matchedItems |-> matched,
      sampleOffers |-> SampleOffers(offers),
      bestPrice |-> IF byPrice = <<>> THEN Null ELSE byPrice[1].price]

\* lines 266-308: the row of one store
StoreRow(store, offers, queries) ==
  LET matched == SelectSeq(queries,
                   LAMBDA q : \E i \in 1..Len(offers) : Matches(offers[i].name, q))
      coverageCount == Len(matched)
  IN [store |-> store,
      coverageCount |-> coverageCount,
      coveragePct |-> IF Len(queries) > 0 THEN RoundPct(coverageCount, Len(queries)) ELSE 0,
      matchedItems |-> matched,
      sampleOffers |-> SampleOffers(offers),
      bestPrice |-> BestPrice(Null, offers, queries)]

\* lines 255-321: the rows for the offers of all queries, in order
GuideRows(queries, offers) ==
  LET stores == StoreOrder(<<>>, offers)
      rows == [i \in 1..Len(stores) |->
                 StoreRow(stores[i], StoreOffers(stores[i], offers), queries)]
  IN Slice(StableSort(rows, "coverage"), MaxGuideStores)

\* One request at a time is followed: gPc is "idle", "fetching" (inside the
\* Promise.all of line 219) or "done".
\* lines 206-217
\* line 212 without the slice
AcceptedQueriesUncut(xs) == uniqStrings(xs)
\* line 212
AcceptedQueries(xs) == Slice(uniqStrings(xs), MaxGuideQueries)

GuideStartWith(xs) ==
  /\ gPc = "idle"
  /\ LET queries == AcceptedQueries(xs)
     IN /\ gQueries' = queries
        /\ IF Len(queries) = 0
           THEN /\ gPc' = "done"
                /\ gResp' = Some([status |-> 200, queries |-> <<>>, totalQueries |-> 0,
                                  stores |-> <<>>])
           ELSE /\ gPc' = "fetching"
                /\ gResp' = Null
  /\ UNCHANGED <<gResults, gFetched, NotGuide>>
GuideStart == \E xs \in GuideRequests : GuideStartWith(xs)

\* the arrays of the terms of a query when the upstream serves the catalogue
\* offers in first for its first term and those in second for its second
TermArrays(terms, first, second) ==
  [j \in 1..Len(terms) |->
     LET S == IF j = 1 THEN first ELSE IF j = 2 THEN second ELSE {}
     IN SelectSeq(Catalogue, LAMBDA o : \E i \in S : Catalogue[i] = o)]

\* lines 220-252: the branch of one query, all its etaSearchOffers calls
\* settled (a call that throws yields [], line 231).  The branches share no
\* state and Promise.all keeps their results by index, so they are completed
\* here in index order.  A term returns each offer page at most once.
GuideBranch ==
  /\ gPc = "fetching"
  /\ Len(gResults) < Len(gQueries)
  /\ LET q == gQueries[Len(gResults) + 1]
         expanded == expandQuery(q)
         room == MaxFetched - gFetched
     IN \E first \in SUBSET CatIdx :
          /\ Cardinality(first) <= room
          /\ Len(expanded) = 0 => first = {}
          /\ \E second \in SUBSET CatIdx :
               /\ Cardinality(first) + Cardinality(second) <= room
               /\ Len(expanded) < 2 => second = {}
               /\ gResults' = Append(gResults,
                    [q |-> q,
                     offers |-> MergeFetched(TermArrays(expanded, first, second))])
               /\ gFetched' = gFetched + Cardinality(first) + Cardinality(second)
  /\ UNCHANGED <<gPc, gQueries, gResp, NotGuide>>

\* lines 255-323 run as soon as one branch has its result (a race)
GuideRespondEarly ==
  /\ gPc = "fetching"
  /\ Len(gResults) >= 1
  /\ gPc' = "done"
  /\ gResp' = Some([status |-> 200, queries |-> gQueries, totalQueries |-> Len(gQueries),
                    stores |-> GuideRows(gQueries,
                                Flatten([i \in 1..Len(gResults) |-> gResults[i].offers]))])
  /\ UNCHANGED <<gQueries, gResults, gFetched, NotGuide>>

\* lines 255-323, after the Promise.all of line 219 has every result
GuideRespond ==
  /\ gPc = "fetching"
  /\ Len(gResults) = Len(gQueries)
  /\ gPc' = "done"
  /\ gResp' = Some([status |-> 200, queries |-> gQueries, totalQueries |-> Len(gQueries),
                    stores |-> GuideRows(gQueries,
                                Flatten([i \in 1..Len(gResults) |-> gResults[i].offers]))])
  /\ UNCHANGED <<gQueries, gResults, gFetched, NotGuide>>

InitGuide == GIdle /\ NIdle /\ XIdle /\ EIdle /\ SIdle /\ PIdle /\ MIdle
NextGuide == GuideStart \/ GuideBranch \/ GuideRespond
SpecGuide == InitGuide /\ [][NextGuide]_vars

\* The same handler in front of the wide upstream.
WideStart == \E xs \in WideRequests : GuideStartWith(xs)

\* what one etaSearchOffers call of the wide upstream does: it throws (the
\* search page or an offer page failed), or returns no offer, or returns
\* all the wide upstream has
WideCallOutcomes == {"throws", "empty", "catalogue"}
\* lines 227-233: the array the try/catch around one call gives
CaughtOffers(outcome) == IF outcome = "catalogue" THEN WideServed ELSE <<>>

\* the calls that threw in the branches finished so far
RECURSIVE ThrownIn(_)
ThrownIn(results) ==
  IF results = <<>> THEN 0
  ELSE Cardinality(Head(results).thrown) + ThrownIn(Tail(results))

\* lines 220-252 as in GuideBranch: the calls of one query settled.  The
\* call of its first term has any outcome, the call of its second term
\* throws or returns nothing, the other calls return nothing.  History kept
\* for the properties: thrown, the terms of the branch whose call threw.
WideBranch ==
  /\ gPc = "fetching"
  /\ Len(gResults) < Len(gQueries)
  /\ LET q == gQueries[Len(gResults) + 1]
         expanded == expandQuery(q)
     IN \E first \in WideCallOutcomes, second \in WideCallOutcomes \ {"catalogue"} :
          LET calls == [j \in 1..Len(expanded) |->
                          IF j = 1 THEN first ELSE IF j = 2 THEN second ELSE "empty"]
              thrown == {j \in 1..Len(expanded) : calls[j] = "throws"}
              served == Len(CaughtOffers(first))
          IN /\ Len(expanded) < 1 => first = "empty"
             /\ Len(expanded) < 2 => second = "empty"
             /\ gFetched + served <= MaxWideFetched
             /\ ThrownIn(gResults) + Cardinality(thrown) <= MaxWideThrown
             /\ gResults' = Append(gResults,
                  [q |-> q,
                   offers |-> MergeFetched([j \in 1..Len(expanded) |-> CaughtOffers(calls[j])]),
                   thrown |-> thrown])
             /\ gFetched' = gFetched + served
  /\ UNCHANGED <<gPc, gQueries, gResp, NotGuide>>

NextGuideWide == WideStart \/ WideBranch \/ GuideRespond
SpecGuideWide == InitGuide /\ [][NextGuideWide]_vars

\* ---------------------------------------------------------------- claims
\* "present and numeric": a finite number, or a string that holds a decimal
\* number (decimal comma or point) once trimmed; a blank string holds none
NumericField(x) ==
  \/ x.t = "num"
  \/ x.t = "str" /\ IsDecimalLiteral(ReplaceFirst(Trim(x.s), ",", "."))
PricePresentNumeric(p) ==
  \/ NumericField(p.price)
  \/ NumericField(p.pricingPrice)
  \/ p.price.t = "obj" /\ NumericField(p.priceValue)

\* C6: the Offer has kind "offer" exactly when the payload's price is
\* present and numeric, and kind "promotion" otherwise (a blank price
\* string included).
C6_KindIffNumericPrice ==
  nOffer # Null =>
    /\ nOffer[1].kind = "offer" <=> PricePresentNumeric(nPayload)
    /\ nOffer[1].kind = "promotion" <=> ~PricePresentNumeric(nPayload)
    /\ nOffer[1].kind = "offer" <=> ~IsNull(nOffer[1].price)

\* a run of 1..3 digits at i, then optional blanks, then "%", reading v
PercentOccurrence(s, v) ==
  \E i \in 1..Len(s) : \E k \in 1..3 :
    /\ i + k - 1 <= Len(s)
    /\ \A j \in i..(i + k - 1) : IsDigit(s[j])
    /\ \E m \in (i + k)..Len(s) :
         s[m] = "%" /\ \A n \in (i + k)..(m - 1) : s[n] = " "
    /\ DigitsValue(SubSeq(s, i, i + k - 1)) = v

\* C7: discountPercent is non-null only for a promotion whose name holds a
\* number 1..100 followed (blanks allowed) by "%"; it is then that number
\* and lies in (0,100].
C7_DiscountOnlyPromotionPercent ==
  (nOffer # Null /\ ~IsNull(nOffer[1].discountPercent)) =>
    LET o == nOffer[1]
        d == o.discountPercent[1]
    IN /\ o.kind = "promotion"
       /\ IsNull(o.price)
       /\ ~IsNull(o.name)
       /\ d > 0 /\ d <= 100
       /\ PercentOccurrence(o.name[1], d)

C7_Witness ==
  /\ nOffer # Null
  /\ nOffer[1].kind = "promotion"
  /\ nOffer[1].discountPercent = Some(100)
  /\ nOffer[1].name = Some(<<"1", "0", "0", "%">>)

\* a query parameter called name: the piece name= opens the query or
\* follows a "&"
HasQueryParam(url, nameEq) ==
  LET q == UrlQuery(url)
  IN \E i \in 1..Len(q) : q[i] = nameEq /\ (i = 1 \/ q[i - 1] = "&")

\* C5: every returned URL starts with https://etilbudsavis.dk/, carries a
\* publication and an offer query parameter, and none is returned twice.
C5_ExtractedUrlsWellFormed ==
  xOut # Null =>
    LET out == xOut[1]
    IN /\ \A i \in 1..Len(out) :
            /\ StartsWith(out[i], OriginSlash)
            /\ HasQueryParam(out[i], "publication=")
            /\ HasQueryParam(out[i], "offer=")
       /\ \A i, j \in 1..Len(out) : out[i] = out[j] => i = j

PageEvents == {i \in 1..Len(eLog) : eLog[i].ev = "page"}
FailedPages == {i \in PageEvents : eLog[i].outcome # "data"}

\* C2: a failed offer page (non-2xx, rejected fetch, undecodable payload)
\* never aborts the batch: the call is not rejected because of it, and the
\* returned list holds the offer of every page that was fetched and decoded.
C2_PageFailureNeverAborts ==
  /\ (ePc = "thrown") => (FailedPages = {})
  /\ (ePc = "returned") =>
       \A i \in PageEvents : eLog[i].outcome = "data" =>
         \E j \in 1..Len(eOut) : eOut[j] = eLog[i].offer[1] /\ eOut[j].sourceUrl = eLog[i].url

\* an element with an offer key, and one whose body is valid JSON
HasOfferKey(el) == ~IsNull(el.key) /\ StartsWith(Base64Utf8(el.key[1]), OfferKeyPrefix)
HoldsJson(el) == ~IsNull(JsonParse(Trim(htmlDecode(el.inner))))
NoOfferElement(html) == \A k \in 1..Len(html) : ~HasOfferKey(html[k])
SomeOfferElementBroken(html) ==
  \E k \in 1..Len(html) : HasOfferKey(html[k]) /\ ~HoldsJson(html[k])
NoOfferElementHoldsJson(html) ==
  \A k \in 1..Len(html) : HasOfferKey(html[k]) => ~HoldsJson(html[k])

\* what the claim says of the page of log entry i: the decoder gives none,
\* the page neither ends the call nor adds an offer for its URL, and the
\* offers of the other pages stay in the list
SkippedQuietly(i) ==
  /\ extractOfferAppDataPayloadFromOfferHtml(eLog[i].html[1]) = JsonNone
  /\ eLog[i].offer = Null
  /\ (i = Len(eLog)) => ePc = "sleep"
  /\ \A j \in 1..Len(eOut) : eOut[j].sourceUrl # eLog[i].url
  /\ \A k \in PageEvents :
       ~IsNull(eLog[k].offer) => \E j \in 1..Len(eOut) : eOut[j] = eLog[k].offer[1]

AllDigits(t) == t # <<>> /\ \A i \in 1..Len(t) : IsDigit(t[i])
IntegerText(raw) ==
  ~IsNull(raw) /\ (AllDigits(raw[1]) \/ (raw[1] # <<>> /\ Head(raw[1]) = "-" /\ AllDigits(Tail(raw[1]))))
IntegerValue(raw) ==
  IF Head(raw[1]) = "-" THEN 0 - DigitsValue(Tail(raw[1])) ELSE DigitsValue(raw[1])
\* a parameter that is absent or holds no number (no digit at all)
NoNumber(raw) == IsNull(raw) \/ \A i \in 1..Len(raw[1]) : ~IsDigit(raw[1][i])
Clamped(v, lo, hi) == IF v < lo THEN lo ELSE IF v > hi THEN hi ELSE v

\* C12: the limit handed to etaSearchOffers is 40 when the limit parameter
\* is absent or holds no number, and the supplied integer clamped into
\* 1..80 otherwise (0 and negative integers give 1).
C12_LimitClamped ==
  ~IsNull(pOpts) =>
    /\ NoNumber(pRaw.limit) => pOpts[1].limit = 40
    /\ IntegerText(pRaw.limit) => pOpts[1].limit = Clamped(IntegerValue(pRaw.limit), 1, 80)

\* C13: the delay handed to etaSearchOffers is 120 when the delayMs
\* parameter is absent or holds no number, and the supplied integer clamped
\* into 0..1000 otherwise (delayMs=0 gives 0).
C13_DelayClamped ==
  ~IsNull(pOpts) =>
    /\ NoNumber(pRaw.delayMs) => pOpts[1].delayMs = 120
    /\ IntegerText(pRaw.delayMs) =>
         pOpts[1].delayMs = Clamped(IntegerValue(pRaw.delayMs), 0, 1000)

\* C1 as claimed: once request r1 has stored its result, every request r2
\* with the same (q, limit, delayMs) that starts afterwards and less than 5
\* minutes after r1 started makes no upstream fetch and returns r1's payload.
C1_RepeatWithinTtlIsCached ==
  \A r1, r2 \in DOMAIN sReqs :
    (/\ r1 \in sReqs[r2].after
     /\ sReqs[r2].key = sReqs[r1].key
     /\ sReqs[r2].now - sReqs[r1].now < CACHE_TTL_MS)
    => (~sReqs[r2].fetched /\ sReqs[r2].pc = "done" /\ sReqs[r2].resp = sReqs[r1].resp)

\* C1 amended: the same, provided no other request has stored a result
\* under that key between r1's store and r2's start (the entry r2 finds is
\* the one r1 wrote).
C1_RepeatWithinTtlIsCachedUnlessOverwritten ==
  \A r1, r2 \in DOMAIN sReqs :
    (/\ r1 \in sReqs[r2].after
     /\ sReqs[r2].key = sReqs[r1].key
     /\ sReqs[r2].now - sReqs[r1].now < CACHE_TTL_MS
     /\ sReqs[r2].sawBy = r1)
    => (~sReqs[r2].fetched /\ sReqs[r2].pc = "done" /\ sReqs[r2].resp = sReqs[r1].resp)

C1_Witness ==
  \E r1, r2 \in DOMAIN sReqs :
    /\ r1 \in sReqs[r2].after /\ sReqs[r2].sawBy = r1
    /\ sReqs[r2].now > sReqs[r1].now
    /\ sReqs[r2].now - sReqs[r1].now < CACHE_TTL_MS
    /\ ~sReqs[r2].fetched
    /\ sReqs[r2].resp = sReqs[r1].resp
    /\ sReqs[r2].resp[1].body.counts.total = 2

\* C10: a /search request with an empty or blank q is answered 200 with no
\* offers, no promotions and all counts 0, fetches nothing upstream and
\* leaves the cache as it was.
C10_BlankQueryEmptyAnswer ==
  [][\A r \in DOMAIN sReqs' :
       (r \notin DOMAIN sReqs /\ sReqs'[r].blank) =>
         /\ sReqs'[r].pc = "done"
         /\ ~sReqs'[r].fetched
         /\ sReqs'[r].resp # Null
         /\ sReqs'[r].resp[1].status = 200
         /\ sReqs'[r].resp[1].body.offers = <<>>
         /\ sReqs'[r].resp[1].body.promotions = <<>>
         /\ sReqs'[r].resp[1].body.counts = [total |-> 0, offers |-> 0, promotions |-> 0]
         /\ sCache' = sCache
         /\ sFetches' = sFetches]_vars

C10_Witness ==
  \E r \in DOMAIN sReqs :
    /\ sReqs[r].blank
    /\ sReqs[r].pc = "done"
    /\ sReqs[r].resp[1].status = 200
    /\ sReqs[r].resp[1].body.counts.total = 0
    /\ \E r0 \in 1..(r - 1) : sReqs[r0].stored

\* the offers the rows of the response were computed from
GuideOffers == Flatten([i \in 1..Len(gResults) |-> gResults[i].offers])
GuideDone == gPc = "done" /\ gResp # Null /\ Len(gQueries) > 0

\* a <= b for best prices, a missing price counting as +infinity
PriceAtMost(a, b) == IsNull(b) \/ (~IsNull(a) /\ a[1] <= b[1])

\* C3: in the /guide response a row never stands before a row with a higher
\* coverageCount, nor, at equal coverageCount, before a row with a lower
\* bestPrice (null counting as +infinity).
C3_RowsOrdered ==
  GuideDone =>
    LET rows == gResp[1].stores
    IN \A i, j \in 1..Len(rows) :
         i < j =>
           /\ rows[i].coverageCount >= rows[j].coverageCount
           /\ rows[i].coverageCount = rows[j].coverageCount =>
                PriceAtMost(rows[i].bestPrice, rows[j].bestPrice)

\* two stores with the same coverage arrive dearest first and leave cheapest
\* first
C3_Witness ==
  /\ GuideDone
  /\ Len(gResp[1].stores) >= 2
  /\ gResp[1].stores[1].coverageCount = gResp[1].stores[2].coverageCount
  /\ gResp[1].stores[1].bestPrice = Some(10)
  /\ gResp[1].stores[2].bestPrice = Some(12)
  /\ StoreKey(GuideOffers[1]) = gResp[1].stores[2].store

\* C4: coverageCount of a row is the number of distinct accepted queries
\* that some offer of the store matches; it lies in 0..totalQueries;
\* coveragePct is coverageCount / totalQueries * 100 rounded to the nearest
\* integer (half up) and lies in 0..100.
C4_CoverageCountAndPct ==
  GuideDone =>
    LET rows == gResp[1].stores
        total == gResp[1].totalQueries
        asked == {gResp[1].queries[i] : i \in 1..Len(gResp[1].queries)}
    IN /\ total = Cardinality(asked)
       /\ \A k \in 1..Len(rows) :
            LET row == rows[k]
                mine == {i \in 1..Len(GuideOffers) : StoreKey(GuideOffers[i]) = row.store}
                covered == {q \in asked : \E i \in mine : Matches(GuideOffers[i].name, q)}
            IN /\ row.coverageCount = Cardinality(covered)
               /\ 0 <= row.coverageCount /\ row.coverageCount <= total
               /\ 2 * row.coveragePct * total <= 200 * row.coverageCount + total
               /\ 2 * row.coveragePct * total > 200 * row.coverageCount - total
               /\ 0 <= row.coveragePct /\ row.coveragePct <= 100

C4_Witness ==
  /\ GuideDone
  /\ gResp[1].totalQueries = 3
  /\ \E k \in 1..Len(gResp[1].stores) :
       gResp[1].stores[k].coverageCount = 2 /\ gResp[1].stores[k].coveragePct = 67
  /\ \E k \in 1..Len(gResp[1].stores) :
       gResp[1].stores[k].coverageCount = 1 /\ gResp[1].stores[k].coveragePct = 33

\* the reorderings of a list
Reorderings(s) == {[i \in 1..Len(s) |-> s[p[i]]] : p \in Permutations(1..Len(s))}

\* C8 as claimed: every reordering of the offers gives the same list of rows
\* (same order, coverageCount, matchedItems, bestPrice, sampleOffers).
C8_RankingIgnoresOfferOrder ==
  GuideDone => \A p \in Reorderings(GuideOffers) : GuideRows(gQueries, p) = gResp[1].stores

RowKeys(rows) == [i \in 1..Len(rows) |-> <<rows[i].coverageCount, rows[i].bestPrice>>]
SamplePrices(row) == [i \in 1..Len(row.sampleOffers) |-> row.sampleOffers[i].price]
SameValues(a, b) ==
  /\ a.coverageCount = b.coverageCount /\ a.coveragePct = b.coveragePct
  /\ a.matchedItems = b.matchedItems /\ a.bestPrice = b.bestPrice
  /\ SamplePrices(a) = SamplePrices(b)

\* C8 amended: every reordering of the offers gives the same sequence of
\* (coverageCount, bestPrice) pairs down the list, and each store has the same
\* coverageCount, coveragePct, matchedItems, bestPrice and sample prices; the
\* order among rows with equal coverageCount and bestPrice, and among sample
\* offers with equal price, follows the order of the offers.
C8_RankingIgnoresOfferOrderUpToTies ==
  GuideDone =>
    \A p \in Reorderings(GuideOffers) :
      LET rows == GuideRows(gQueries, p)
          base == gResp[1].stores
      IN /\ RowKeys(rows) = RowKeys(base)
         /\ \A i \in 1..Len(rows) : \A j \in 1..Len(base) :
              rows[i].store = base[j].store => SameValues(rows[i], base[j])

\* two stores tied on coverageCount and bestPrice, and a store with two
\* offers at one price
C8_Witness ==
  /\ GuideDone
  /\ \E i, j \in 1..Len(gResp[1].stores) :
       /\ i < j
       /\ gResp[1].stores[i].coverageCount = gResp[1].stores[j].coverageCount
       /\ gResp[1].stores[i].bestPrice = gResp[1].stores[j].bestPrice
       /\ gResp[1].stores[i].bestPrice # Null
  /\ \E k \in 1..Len(gResp[1].stores) :
       /\ Len(gResp[1].stores[k].sampleOffers) = 2
       /\ gResp[1].stores[k].sampleOffers[1].price = gResp[1].stores[k].sampleOffers[2].price
  /\ \E p \in Reorderings(GuideOffers) : GuideRows(gQueries, p) # gResp[1].stores

\* the example of the specification, with Netto for Store X and Lidl for
\* Store Y
ExampleQueries == <<<<"m", "ae", "l", "k">>, <<"l", "oe", "g">>>>
ExampleGiven ==
  /\ GuideDone
  /\ gQueries = ExampleQueries
  /\ Len(GuideOffers) = 4
  /\ {GuideOffers[i] : i \in 1..4} = {Catalogue[1], Catalogue[2], Catalogue[3], Catalogue[4]}

\* C9: for the queries "maelk", "loeg" and the offers X "Letmaelk 1L" 12,
\* X "Loeg 1kg" 12, Y "Kakaomaelk" 15, Y "Loeg 1kg" 10: X has coverageCount
\* 2, coveragePct 100, bestPrice 12; Y has coverageCount 1 (only "loeg"),
\* bestPrice 10; X is ranked before Y.
C9_ExampleRanking ==
  ExampleGiven =>
    LET rows == gResp[1].stores
    IN /\ Len(rows) = 2
       /\ rows[1].store = <<"N", "e", "t", "t", "o">>
       /\ rows[1].coverageCount = 2 /\ rows[1].coveragePct = 100
       /\ rows[1].bestPrice = Some(12)
       /\ rows[2].store = <<"L", "i", "d", "l">>
       /\ rows[2].coverageCount = 1 /\ rows[2].matchedItems = <<<<"l", "oe", "g">>>>
       /\ rows[2].bestPrice = Some(10)

C9_Witness ==
  /\ ExampleGiven
  /\ gResp[1].stores[1].coverageCount = 2
  /\ gResp[1].stores[2].coverageCount = 1
  /\ gResults[1].offers = <<Catalogue[1], Catalogue[3]>>
  /\ gResults[2].offers = <<Catalogue[2], Catalogue[4]>>

\* C14: for every /guide request the accepted query list has at most 10
\* entries, all distinct and non-empty; the response has at most 10 store
\* rows; and when the accepted list is empty the response is 200 with
\* queries = [], totalQueries = 0, stores = [] and nothing is fetched.
C14_GuideLimits ==
  /\ Len(gQueries) <= 10
  /\ \A i \in 1..Len(gQueries) :
       /\ gQueries[i] # <<>>
       /\ \A j \in 1..Len(gQueries) : gQueries[i] = gQueries[j] => i = j
  /\ gResp # Null => Len(gResp[1].stores) <= 10
  /\ (gPc # "idle" /\ gQueries = <<>>) =>
       /\ gPc = "done"
       /\ gResp = Some([status |-> 200, queries |-> <<>>, totalQueries |-> 0,
                        stores |-> <<>>])
       /\ gResults = <<>>
       /\ gFetched = 0
\* ten queries accepted, twelve stores fetched, ten rows answered
C14_Witness ==
  /\ gPc = "done"
  /\ Len(gQueries) = 10
  /\ \E i \in 1..Len(gResults) : Len(gResults[i].offers) = Len(WideCatalogue)
  /\ Len(gResp[1].stores) = 10

\* C15: when the fetch of the search page fails (rejected, or non-2xx) the
\* failure surfaces as an empty offer list for the term and is not thrown:
\* a call that got no offer URL and fetched no offer page has returned [].
C15_SearchFailureIsEmptyList ==
  (eOpts # Null /\ eUrls = <<>> /\ eLog = <<>>) => (ePc = "returned" /\ eOut = <<>>)

\* C16: in /guide the ranking is computed only after every branch has
\* finished; a branch whose search fails contributes an empty offer list and
\* does not fail the join: the response is still 200 and is the ranking of
\* the offers of all branches.
C16_RankingAfterJoin ==
  /\ \A i \in 1..Len(gResults) :
       gResults[i].thrown = 1..Len(expandQuery(gResults[i].q)) => gResults[i].offers = <<>>
  /\ (gResp # Null /\ gQueries # <<>>) =>
       /\ Len(gResults) = Len(gQueries)
       /\ gResp[1].status = 200
       /\ gResp[1].stores = GuideRows(gQueries, GuideOffers)
       /\ \A k \in 1..Len(GuideOffers) :
            \/ Len(gResp[1].stores) = MaxGuideStores
            \/ \E r \in 1..Len(gResp[1].stores) :
                 gResp[1].stores[r].store = StoreKey(GuideOffers[k])
\* answered after a branch whose only call threw and a branch with offers
C16_Witness ==
  /\ gPc = "done"
  /\ gResp[1].status = 200
  /\ gResp[1].stores # <<>>
  /\ \E i \in 1..Len(gResults) : gResults[i].thrown = {1} /\ gResults[i].offers = <<>>
  /\ \E i \in 1..Len(gResults) : gResults[i].offers # <<>>

\* C17: every request eventually completes even if an upstream fetch never
\* responds (each fetch has a timeout, and a fetch that timed out is
\* skipped): a call that is fetching offer pages eventually returns or
\* throws.
C17_CallCompletes == (ePc \in {"loop", "sleep"}) ~> (ePc \in {"returned", "thrown"})

\* C18: a /search request answered from the cache finds an entry whose
\* producer started less than 5 minutes before it; every other request
\* with a query performs an upstream fetch, and when it is done the entry
\* of its key holds its payload and its time.
AnsweredFromCache(r) ==
  /\ sReqs'[r].pc = "done"
  /\ sReqs'[r].sawBy # 0
  /\ sReqs'[r].now - sReqs[sReqs'[r].sawBy].now < CACHE_TTL_MS
  /\ sReqs'[r].resp = Respond(200, sCache[sReqs'[r].key].data)
EntryOverwritten(r) ==
  /\ CacheHas(sReqs[r].key)'
  /\ sCache'[sReqs[r].key] =
       [t |-> sReqs[r].now, data |-> sReqs'[r].resp[1].body, by |-> r]
C18_NoStaleHitElseRefetch ==
  [][\A r \in DOMAIN sReqs' :
       /\ (r \notin DOMAIN sReqs /\ ~sReqs'[r].blank) =>
            \/ AnsweredFromCache(r)
            \/ sReqs'[r].pc = "fetching" /\ sReqs'[r].fetched
       /\ (r \in DOMAIN sReqs /\ sReqs[r].pc = "fetching" /\ sReqs'[r].pc = "done") =>
            EntryOverwritten(r)]_vars

\* the offers of the store of a row that match at least one accepted query
MatchingOffers(row) ==
  {k \in 1..Len(GuideOffers) :
     /\ StoreKey(GuideOffers[k]) = row.store
     /\ \E i \in 1..Len(gQueries) : Matches(GuideOffers[k].name, gQueries[i])}

\* C19: in every row of a /guide response bestPrice is the lowest price of
\* the offers of the store that match at least one query, and null exactly
\* when no offer of the store matches a query.
C19_BestPriceIsCheapestMatch ==
  GuideDone =>
    \A r \in 1..Len(gResp[1].stores) :
      LET row == gResp[1].stores[r]
          mine == MatchingOffers(row)
      IN /\ IsNull(row.bestPrice) <=> mine = {}
         /\ mine # {} =>
              /\ \E k \in mine : GuideOffers[k].price = row.bestPrice
              /\ \A k \in mine : PriceAtMost(row.bestPrice, GuideOffers[k].price)
\* a store whose offers match no query beside a store whose best price is
\* that of its only matching offer
C19_Witness ==
  /\ GuideDone
  /\ \E r \in 1..Len(gResp[1].stores) :
       /\ IsNull(gResp[1].stores[r].bestPrice)
       /\ gResp[1].stores[r].sampleOffers # <<>>
  /\ \E r \in 1..Len(gResp[1].stores) :
       /\ gResp[1].stores[r].bestPrice = Some(12)
       /\ Cardinality(MatchingOffers(gResp[1].stores[r])) = 1
       /\ Len(gResp[1].stores[r].sampleOffers) = 2

\* C20: in every row of a /guide response sampleOffers has at most 4
\* entries in ascending order of price, every entry is an offer of the store
\* that matches at least one query, and no matching offer of the store left
\* out of sampleOffers is cheaper than an entry.
C20_SampleOffersCheapestMatching ==
  GuideDone =>
    \A r \in 1..Len(gResp[1].stores) :
      LET row == gResp[1].stores[r]
          sample == row.sampleOffers
          mine == MatchingOffers(row)
          shown == {k \in mine : \E i \in 1..Len(sample) :
                                   sample[i].sourceUrl = GuideOffers[k].sourceUrl}
      IN /\ Len(sample) <= 4
         /\ \A i, j \in 1..Len(sample) : i < j => PriceAtMost(sample[i].price, sample[j].price)
         /\ \A i \in 1..Len(sample) :
              \E k \in mine : /\ GuideOffers[k].sourceUrl = sample[i].sourceUrl
                              /\ GuideOffers[k].name = sample[i].name
                              /\ GuideOffers[k].price = sample[i].price
         /\ \A k \in mine \ shown : \A i \in 1..Len(sample) :
              PriceAtMost(sample[i].price, GuideOffers[k].price)

\* C21: in a /guide response offers are grouped by normalized store name:
\* no two rows have store names that normalize to the same string.
C21_RowsByNormalizedStore ==
  GuideDone =>
    \A r1, r2 \in 1..Len(gResp[1].stores) :
      normalizeText(gResp[1].stores[r1].store) = normalizeText(gResp[1].stores[r2].store)
        => r1 = r2

\* C22: only offers that match a query form store groups: every row of a
\* /guide response has coverageCount >= 1 and a non-empty matchedItems.
C22_RowsCoverSomeQuery ==
  GuideDone =>
    \A r \in 1..Len(gResp[1].stores) :
      /\ gResp[1].stores[r].coverageCount >= 1
      /\ gResp[1].stores[r].matchedItems # <<>>

\* C23: sourceUrl is the identity of the merged offers: the offers behind
\* the rows of a /guide response, and so the sampleOffers of a row, never
\* hold the same sourceUrl twice, whichever queries or terms returned it.
C23_OffersUniqueBySourceUrl ==
  GuideDone =>
    /\ \A j, k \in 1..Len(GuideOffers) :
         GuideOffers[j].sourceUrl = GuideOffers[k].sourceUrl => j = k
    /\ \A r \in 1..Len(gResp[1].stores) :
         LET sample == gResp[1].stores[r].sampleOffers
         IN \A i, j \in 1..Len(sample) : sample[i].sourceUrl = sample[j].sourceUrl => i = j

\* the Store Classifier accepts a name: normalized, it holds no deny-list
\* entry and at least one allow-list entry
ClassifierAccepts(store) ==
  LET s == normalizeText(store)
  IN /\ s # <<>>
     /\ \A i \in 1..Len(StoreDeny) : ~Includes(s, StoreDeny[i])
     /\ \E i \in 1..Len(StoreAllow) : Includes(s, normalizeText(StoreAllow[i]))
\* the same, evaluated once for the store names of the upstreams
TrimmedKnownStores == {TrimmedStore(s) : s \in KnownStores}
AcceptedKnownStores == {s \in TrimmedKnownStores : ClassifierAccepts(s)}
Accepts(store) ==
  IF store \in TrimmedKnownStores THEN store \in AcceptedKnownStores
  ELSE ClassifierAccepts(store)

\* C24: every row of a /guide response has a store the Store Classifier
\* accepts, and no offer with a null price or a junk name contributes to a
\* row.
C24_RowsOfAcceptedStores ==
  GuideDone =>
    /\ \A r \in 1..Len(gResp[1].stores) :
         LET row == gResp[1].stores[r]
         IN /\ Accepts(row.store)
            /\ \E k \in 1..Len(GuideOffers) : StoreKey(GuideOffers[k]) = row.store
            /\ \A i \in 1..Len(row.sampleOffers) :
                 /\ ~IsNull(row.sampleOffers[i].price)
                 /\ ~JunkName(row.sampleOffers[i].name)
    /\ \A k \in 1..Len(GuideOffers) :
         /\ ~IsNull(GuideOffers[k].price)
         /\ ~JunkName(GuideOffers[k].name)
         /\ ~IsNull(GuideOffers[k].store)
         /\ Accepts(GuideOffers[k].store[1])
\* a call returned the offers to be dropped together with the catalogue,
\* and the first rows are those of the catalogue
C24_Witness ==
  /\ GuideDone
  /\ gFetched >= Len(WideServed)
  /\ Len(gResp[1].stores) = MaxGuideStores
  /\ gResp[1].stores[1].store = TrimmedStore(WideCatalogue[1].store)

\* the words of a normalized text
WordsOf(norm) == {SplitSpace(norm)[i] : i \in 1..Len(SplitSpace(norm))} \ {<<>>}
NameNorm == normalizeText(IF IsNull(mName) THEN <<>> ELSE mName[1])
QueryNorm == normalizeText(mQuery)
MilkTypeTokens ==
  {<<"m", "ae", "l", "k">>, <<"l", "e", "t", "m", "ae", "l", "k">>,
   <<"m", "i", "n", "i", "m", "ae", "l", "k">>,
   <<"s", "k", "u", "m", "m", "e", "t", "m", "ae", "l", "k">>,
   <<"s", "k", "u", "m", "m", "e", "m", "ae", "l", "k">>,
   <<"s", "oe", "d", "m", "ae", "l", "k">>,
   <<"k", "ae", "r", "n", "e", "m", "ae", "l", "k">>}
FlavourSubstrings ==
  {<<"k", "a", "k", "a", "o">>, <<"c", "h", "o", "k", "o", "l", "a", "d", "e">>,
   <<"j", "o", "r", "d", "b", "ae", "r">>, <<"v", "a", "n", "i", "l">>,
   <<"p", "r", "o", "t", "e", "i", "n">>, <<"s", "h", "a", "k", "e">>}
GenericMilkQuery == QueryNorm \in {<<"m", "ae", "l", "k">>, <<"m", "i", "l", "k">>}

\* C25: for the generic milk query offerMatchesQuery is true exactly when
\* the normalized name holds an allowed milk-type token or the whole word
\* "maelk" and none of the flavour substrings.
C25_MilkQueryMatch ==
  (GenericMilkQuery /\ mMatch # Null) =>
    (mMatch[1] <=> /\ WordsOf(NameNorm) \cap MilkTypeTokens # {}
                   /\ \A f \in FlavourSubstrings : ~Includes(NameNorm, f))
\* a milk name accepted, and a flavoured milk name refused
C25_Witness ==
  /\ GenericMilkQuery /\ mMatch = Some(FALSE)
  /\ Includes(NameNorm, <<"v", "a", "n", "i", "l">>)
  /\ <<"l", "e", "t", "m", "ae", "l", "k">> \in WordsOf(NameNorm)

\* C26: for a query that is not the generic milk query offerMatchesQuery is
\* true exactly when some token of the normalized query of length >= 3 is a
\* whole word of the normalized name; shorter tokens never match, and an
\* empty name or query never matches.
C26_TokenWholeWordMatch ==
  (~GenericMilkQuery /\ mMatch # Null) =>
    /\ mMatch[1] <=> \E t \in WordsOf(QueryNorm) : Len(t) >= 3 /\ t \in WordsOf(NameNorm)
    /\ (\A t \in WordsOf(QueryNorm) : Len(t) < 3) => ~mMatch[1]
    /\ (NameNorm = <<>> \/ QueryNorm = <<>>) => ~mMatch[1]
\* the two-letter token of the query is a word of the name, its longer
\* token is not, and nothing matches
C26_Witness ==
  /\ mMatch = Some(FALSE)
  /\ WordsOf(QueryNorm) = {<<"a", "b">>, <<"o", "s", "t">>}
  /\ WordsOf(NameNorm) = {<<"a", "b">>, <<"k", "a", "k", "a", "o">>}

\* C27: for every non-empty query /guide accepts expandQuery returns at
\* least one search term: the milk variants for the generic milk query, the
\* raw-fruit terms for a lime juice or saft query, the query itself otherwise.
AcceptedQuery == mQuery # <<>> /\ Trim(mQuery) = mQuery
LimeJuiceQuery ==
  /\ Includes(QueryNorm, <<"l", "i", "m", "e">>)
  /\ \/ Includes(QueryNorm, <<"j", "u", "i", "c", "e">>)
     \/ Includes(QueryNorm, <<"s", "a", "f", "t">>)
C27_ExpansionNeverEmpty ==
  (AcceptedQuery /\ mTerms # Null) =>
    /\ Len(mTerms[1]) >= 1
    /\ mTerms[1] = IF GenericMilkQuery THEN MilkTerms
                   ELSE IF LimeJuiceQuery
                     THEN <<<<"l", "i", "m", "e">>, <<"l", "i", "m", "e", "s">>,
                            <<"l", "i", "m", "e", "f", "r", "u", "g", "t">>>>
                   ELSE <<mQuery>>

\* the positions of the offer-page fetches in the log, in order
PageAt(k) == CHOOSE i \in PageEvents : Cardinality({j \in PageEvents : j < i}) = k - 1

\* C28: within one etaSearchOffers call the offer pages are fetched one at
\* a time in the order of the URL extractor, at most limit of them, and a
\* sleep(delayMs) is awaited between the end of one fetch and the start of
\* the next, also after a non-2xx page or a page without payload.
C28_PagesInOrderAndPaced ==
  (eOpts # Null /\ ePc # "thrown") =>
    /\ \E html \in SearchPages :
         eUrls = Slice(extractOfferUrlsFromSearchHtml(html), eOpts[1].limit)
    /\ Cardinality(PageEvents) <= eOpts[1].limit
    /\ Cardinality(PageEvents) <= Len(eUrls)
    /\ \A k \in 1..Cardinality(PageEvents) : eLog[PageAt(k)].url = eUrls[k]
    /\ \A i \in PageEvents : i < Len(eLog) => eLog[i + 1].ev = "sleep"
    /\ \A i \in PageEvents : ePc = "loop" => i < Len(eLog)
\* two pages fetched, the first answered with a non-2xx status, a sleep
\* between them
C28_Witness ==
  /\ Len(eLog) >= 3
  /\ eLog[1].ev = "page" /\ eLog[1].outcome = "status"
  /\ eLog[2].ev = "sleep"
  /\ eLog[3].ev = "page" /\ eLog[3].url = eUrls[2]
  /\ eOpts[1].limit = 2

\* C29: under every interleaving of /search requests every cache entry is
\* the whole payload of one request whose (q, limit, delayMs) is the key of
\* the entry, with counts that agree with its lists; a request answered from
\* the cache gets such a payload.
WholePayload(data, key) ==
  /\ data.q = key[1]
  /\ data.counts.offers = Len(data.offers)
  /\ data.counts.promotions = Len(data.promotions)
  /\ data.counts.total = Len(data.offers) + Len(data.promotions)
  /\ \A i \in 1..Len(data.offers) : ~IsNull(data.offers[i].price)
  /\ \A i \in 1..Len(data.promotions) : IsNull(data.promotions[i].price)
C29_CacheEntriesWhole ==
  /\ \A key \in DOMAIN sCache :
       LET e == sCache[key]
       IN /\ e.by \in DOMAIN sReqs
          /\ sReqs[e.by].key = key
          /\ sReqs[e.by].stored
          /\ sReqs[e.by].resp = Respond(200, e.data)
          /\ e.t = sReqs[e.by].now
          /\ WholePayload(e.data, key)
  /\ \A r \in DOMAIN sReqs :
       (sReqs[r].pc = "done" /\ ~sReqs[r].blank /\ ~sReqs[r].fetched) =>
         /\ sReqs[r].sawBy \in DOMAIN sReqs
         /\ sReqs[r].resp = sReqs[sReqs[r].sawBy].resp
         /\ WholePayload(sReqs[r].resp[1].body, sReqs[r].key)
\* two requests for one key in flight together; the one that started first
\* stored last, and a third request is answered with its payload
C29_Witness ==
  \E r1, r2, r3 \in DOMAIN sReqs :
    /\ r1 < r2 /\ r2 < r3
    /\ sReqs[r1].key = sReqs[r2].key /\ sReqs[r3].key = sReqs[r1].key
    /\ sReqs[r1].stored /\ sReqs[r2].stored
    /\ r1 \notin sReqs[r2].after
    /\ sReqs[r1].resp # sReqs[r2].resp
    /\ sReqs[r3].sawBy = r1 /\ ~sReqs[r3].fetched /\ sReqs[r3].pc = "done"
    /\ sReqs[r3].resp[1].body.counts.total = 2

\* request r ends in this step because etaSearchOffers threw
FetchFailed(r) ==
  /\ r \in DOMAIN sReqs /\ sReqs[r].pc = "fetching"
  /\ sReqs'[r].pc = "done" /\ sReqs'[r].resp[1].status # 200

\* C30: when etaSearchOffers throws, the cache is left as it was (no entry
\* made or overwritten, an expired entry stays), and no later request is
\* answered from a cached failure: a request answered from the cache gets
\* the payload a request stored after its fetch returned.
C30_FailureLeavesCache ==
  [][/\ (\E r \in DOMAIN sReqs : FetchFailed(r)) => sCache' = sCache
     /\ \A key \in DOMAIN sCache' : sReqs'[sCache'[key].by].resp[1].status = 200
     /\ \A r \in DOMAIN sReqs' :
          (r \notin DOMAIN sReqs /\ ~sReqs'[r].blank /\ ~sReqs'[r].fetched) =>
            /\ sReqs'[r].sawBy \in DOMAIN sReqs
            /\ sReqs[sReqs'[r].sawBy].stored
            /\ sReqs'[r].resp[1].status = 200]_vars
\* a request found an expired entry and failed; the entry is still that of
\* the first request, and the next request for the key fetches again
C30_Witness ==
  \E r1, r2, r3 \in DOMAIN sReqs :
    /\ r1 < r2 /\ r2 < r3
    /\ sReqs[r1].stored
    /\ sReqs[r2].key = sReqs[r1].key /\ sReqs[r3].key = sReqs[r1].key
    /\ sReqs[r2].sawBy = r1 /\ sReqs[r2].fetched /\ sReqs[r2].pc = "done"
    /\ sReqs[r2].resp[1].status = 500
    /\ sReqs[r2].now - sReqs[r1].now >= CACHE_TTL_MS
    /\ sCache[sReqs[r1].key].by = r1
    /\ sReqs[r3].sawBy = r1 /\ sReqs[r3].fetched

====
